---- MODULE Spec2Model ----
(***************************************************************************)
(* A model of tartube's media data classes (media.py): the tree of         *)
(* media.Folder / media.Channel / media.Playlist / media.Video objects,    *)
(* the child lists and their aggregate counters, the comparator-based      *)
(* ordering of child lists (Python's list.sort with functools.cmp_to_key), *)
(* and the master/slave download-destination aliasing.                     *)
(***************************************************************************)
EXTENDS Integers, Sequences, FiniteSets, TLC

(***************************************************************************)
(* The objects.  A media data object is identified by its dbid; the class  *)
(* of an object is fixed by the set its dbid belongs to.                   *)
(***************************************************************************)
Folders == {1, 2}
Channels == {3}
Playlists == {4}
Videos == {5, 6, 7}
Containers == Folders \cup Channels \cup Playlists
Nodes == Containers \cup Videos
\* dbids that no object of the registry carries (a lookup of them misses)
UnknownDbids == {9}

\* Python's None, for parent_obj, upload_time, receive_time and index
None == 0
\* what a Python function returns when it falls off its end (do_sort can)
NoReturn == 2

\* Bounds of the model
MaxTime == 3
MaxRecv == 1
MaxIndex == 3
MaxLen == 2
MaxFlags == 2
MaxDrift == 1

UploadTimes == 1..MaxTime
ReceiveTimes == 1..MaxRecv
Indexes == 1..MaxIndex
\* Names: single letters in both cases, so that str.lower() is no identity
Names == {"a", "A", "b"}
\* new_name arguments of get_actual_dir; NoName is new_name=None, and None
\* wherever the other values are strings (a nickname, a source)
NoName == "<None>"
NewNames == {"x", NoName}
\* mainapp.TartubeApp.downloads_dir
downloads_dir == "/downloads"

VARIABLES
    created,            \* the objects constructed so far
    parent_obj,         \* self.parent_obj
    child_list,         \* self.child_list of each container
    vid_count, bookmark_count, dl_count, fav_count, new_count, waiting_count,
    bookmark_flag, dl_flag, fav_flag, new_flag, waiting_flag,  \* of each video
    upload_time, receive_time, index,                          \* of each video
    name, nickname,
    priv_flag,          \* of each folder
    source,             \* of each video, channel and playlist
    fixed_flag,         \* of each folder
    hidden_flag,        \* of each folder
    sorting,            \* the call of sort_children that is under way
    master_dbid, slave_dbid_list,
    media_reg_dict,     \* the keys of mainapp.TartubeApp.media_reg_dict
    ret                 \* the last call: what was called and how it ended

vars == <<created, parent_obj, child_list, vid_count, bookmark_count, dl_count,
          fav_count, new_count, waiting_count, bookmark_flag, dl_flag, fav_flag,
          new_flag, waiting_flag, upload_time, receive_time, index, name,
          nickname, priv_flag, source, fixed_flag, hidden_flag, sorting,
          master_dbid,
          slave_dbid_list, media_reg_dict,
          ret>>

countVars == <<vid_count, bookmark_count, dl_count, fav_count, new_count,
               waiting_count>>
flagVars == <<bookmark_flag, dl_flag, fav_flag, new_flag, waiting_flag>>
keyVars == <<upload_time, receive_time, index>>
nameVars == <<name, nickname>>
aliasVars == <<master_dbid, slave_dbid_list, media_reg_dict>>
treeVars == <<created, parent_obj, child_list>>
\* the fields that only the exports and is_hidden read
exportVars == <<source, fixed_flag, hidden_flag>>

\* sorting when no call of sort_children is under way
NoSort == [pc |-> "idle", self |-> None, copy_list |-> <<>>]

(***************************************************************************)
(* GenericMedia.get_type and the isinstance tests of the source.           *)
(***************************************************************************)
get_type(n) ==
    IF n \in Channels THEN "channel"
    ELSE IF n \in Playlists THEN "playlist"
    ELSE IF n \in Folders THEN "folder"
    ELSE "video"

isVideo(n) == n \in Videos
isRemote(n) == n \in Channels \cup Playlists

\* The outcome of a call, kept in ret
Call(op, self, arg, val, raised) ==
    [op |-> op, self |-> self, arg |-> arg, val |-> val, raised |-> raised]

(***************************************************************************)
(* str.lower() and the comparison of the lowered names.                    *)
(***************************************************************************)
lower(s) == IF s = "A" THEN "a" ELSE s
StrOrd(s) == IF s = "a" THEN 1 ELSE IF s = "A" THEN 0 ELSE 2
StrLess(s, t) == StrOrd(s) < StrOrd(t)

(***************************************************************************)
(* The comparators.  A result is -1, 0 or 1, or NoReturn where the Python  *)
(* function reaches its end without a return statement.                    *)
(***************************************************************************)
\* the two comparators as they would be without their first rule: a
\* playlist that does not look at the index, a folder that does not look
\* at the classes of the two children
do_sort_without_index(self, obj1, obj2) ==
    IF upload_time[obj1] # None /\ upload_time[obj2] # None
    THEN IF upload_time[obj1] > upload_time[obj2] THEN -1
         ELSE IF upload_time[obj1] < upload_time[obj2] THEN 1
         ELSE IF receive_time[obj1] # None /\ receive_time[obj2] # None
         THEN IF receive_time[obj1] < receive_time[obj2] THEN -1
              ELSE IF receive_time[obj1] > receive_time[obj2] THEN 1
              ELSE 0
         ELSE NoReturn
    ELSE 0

do_sort_by_name(self, obj1, obj2) ==
    IF StrLess(lower(name[obj1]), lower(name[obj2])) THEN -1
    ELSE IF StrLess(lower(name[obj2]), lower(name[obj1])) THEN 1
    ELSE 0

GenericRemoteContainer_do_sort(self, obj1, obj2) ==
    IF self \in Playlists /\ index[obj1] # None /\ index[obj2] # None
    THEN IF index[obj1] < index[obj2] THEN -1 ELSE 1
    ELSE IF upload_time[obj1] # None /\ upload_time[obj2] # None
    THEN IF upload_time[obj1] > upload_time[obj2] THEN -1
         ELSE IF upload_time[obj1] < upload_time[obj2] THEN 1
         ELSE IF receive_time[obj1] # None /\ receive_time[obj2] # None
         THEN IF receive_time[obj1] < receive_time[obj2] THEN -1
              ELSE IF receive_time[obj1] > receive_time[obj2] THEN 1
              ELSE 0
         ELSE NoReturn
    ELSE 0

Folder_do_sort(self, obj1, obj2) ==
    IF get_type(obj1) = get_type(obj2) \/ (isRemote(obj1) /\ isRemote(obj2))
    THEN IF isVideo(obj1)
         THEN IF upload_time[obj1] # None /\ upload_time[obj2] # None
              THEN IF upload_time[obj1] > upload_time[obj2] THEN -1
                   ELSE IF upload_time[obj1] < upload_time[obj2] THEN 1
                   ELSE IF receive_time[obj1] # None /\ receive_time[obj2] # None
                   THEN IF priv_flag[self]
                        THEN IF receive_time[obj1] > receive_time[obj2] THEN -1
                             ELSE IF receive_time[obj1] < receive_time[obj2] THEN 1
                             ELSE 0
                        ELSE IF receive_time[obj1] < receive_time[obj2] THEN -1
                             ELSE IF receive_time[obj1] > receive_time[obj2] THEN 1
                             ELSE 0
                   ELSE 0
              ELSE 0
         ELSE IF StrLess(lower(name[obj1]), lower(name[obj2])) THEN -1
              ELSE IF StrLess(lower(name[obj2]), lower(name[obj1])) THEN 1
              ELSE 0
    ELSE IF obj1 \in Folders THEN -1
         ELSE IF obj2 \in Folders THEN 1
         ELSE IF obj1 \in Channels \/ obj1 \in Playlists THEN -1
         ELSE IF obj2 \in Channels \/ obj2 \in Playlists THEN 1
         ELSE 0

\* a comparator that puts its first argument first, whatever the two are
do_sort_first_wins(self, obj1, obj2) == -1

\* self.do_sort, as Python's method lookup resolves it
do_sort(self, obj1, obj2) ==
    IF self \in Folders THEN Folder_do_sort(self, obj1, obj2)
    ELSE GenericRemoteContainer_do_sort(self, obj1, obj2)

(***************************************************************************)
(* list.sort(key=functools.cmp_to_key(self.do_sort)) for a list of fewer   *)
(* than 64 items: CPython finds the run the list starts with (count_run),  *)
(* reverses it when it is strictly descending, and inserts the remaining   *)
(* items by binary insertion (binarysort).  Every comparison is            *)
(* key(x) < key(y), that is do_sort(x, y) < 0; when do_sort returned None  *)
(* that comparison raises TypeError and the sort stops where it is.        *)
(* A sort result is [list, ok]: the list as it stands, and whether the     *)
(* sort completed.                                                         *)
(***************************************************************************)
Reverse(l) == [i \in 1..Len(l) |-> l[Len(l) + 1 - i]]

\* a sort that stopped with TypeError, the list being l
SortRaised(l) == [list |-> l, ok |-> FALSE]

\* the end (1-based) of the run that l[1..i] starts, or 0 for TypeError; c is
\* the result of comparing l[i+1] with l[i]
RECURSIVE count_run(_, _, _, _)
count_run_step(self, l, i, descending, c) ==
    IF c = NoReturn THEN 0
    ELSE IF (c < 0) = descending THEN count_run(self, l, i + 1, descending)
    ELSE i

count_run(self, l, i, descending) ==
    IF i = Len(l) THEN i
    ELSE count_run_step(self, l, i, descending, do_sort(self, l[i + 1], l[i]))

\* binarysort's search for the place of pivot in l[lft+1..rgt] (0-based
\* bounds as in the C code); -1 for TypeError; c is the result of comparing
\* pivot with the item at p
RECURSIVE binary_search(_, _, _, _, _)
binary_search_step(self, l, pivot, lft, rgt, p, c) ==
    IF c = NoReturn THEN -1
    ELSE IF c < 0
         THEN IF lft < p THEN binary_search(self, l, pivot, lft, p) ELSE lft
         ELSE IF p + 1 < rgt THEN binary_search(self, l, pivot, p + 1, rgt)
              ELSE p + 1

binary_search_at(self, l, pivot, lft, rgt, p) ==
    binary_search_step(self, l, pivot, lft, rgt, p,
                       do_sort(self, pivot, l[p + 1]))

binary_search(self, l, pivot, lft, rgt) ==
    binary_search_at(self, l, pivot, lft, rgt, lft + ((rgt - lft) \div 2))

\* binarysort: l[1..start] is sorted, insert l[start+1], l[start+2], ...;
\* pos is the place found for l[start+1]
RECURSIVE binarysort(_, _, _)
binarysort_insert(self, l, start, pos) ==
    IF pos = -1 THEN SortRaised(l)
    ELSE binarysort(self,
             SubSeq(l, 1, pos) \o <<l[start + 1]>> \o SubSeq(l, pos + 1, start)
                 \o SubSeq(l, start + 2, Len(l)),
             start + 1)

binarysort(self, l, start) ==
    IF start >= Len(l) THEN [list |-> l, ok |-> TRUE]
    ELSE binarysort_insert(self, l, start,
                           binary_search(self, l, l[start + 1], 0, start))

\* the sort once the first run, l[1..n], is known (n = 0 for TypeError)
list_sort_run(self, l, descending, n) ==
    IF n = 0 THEN SortRaised(l)
    ELSE binarysort(self,
             IF descending
             THEN Reverse(SubSeq(l, 1, n)) \o SubSeq(l, n + 1, Len(l))
             ELSE l,
             n)

\* the sort once the first comparison, of l[2] with l[1], has given first
list_sort_first(self, l, first) ==
    IF first = NoReturn THEN SortRaised(l)
    ELSE list_sort_run(self, l, first < 0, count_run(self, l, 2, first < 0))

list_sort(self, l) ==
    IF Len(l) < 2 THEN [list |-> l, ok |-> TRUE]
    ELSE list_sort_first(self, l, do_sort(self, l[2], l[1]))

(***************************************************************************)
(* sort_children.  Both versions sort a copy and store it when the list    *)
(* still has the copy's length (it always has, nothing else runs during    *)
(* the sort); GenericRemoteContainer's then sorts the stored list in place *)
(* once more.  The result is [list, ok]: the child list when the call      *)
(* ends, and whether it returned (ok) or raised TypeError.  When the sort  *)
(* of the copy raises, the child list is as it was.                        *)
(***************************************************************************)
\* Folder.sort_children, copy_list being the sorted copy
Folder_store_copy(l, copy_list) ==
    IF copy_list.ok THEN copy_list ELSE SortRaised(l)

Folder_sort_children(self, l) == Folder_store_copy(l, list_sort(self, l))

\* GenericRemoteContainer.sort_children, copy_list being the sorted copy
GenericRemoteContainer_store_copy(self, l, copy_list) ==
    IF copy_list.ok THEN list_sort(self, copy_list.list) ELSE SortRaised(l)

GenericRemoteContainer_sort_children(self, l) ==
    GenericRemoteContainer_store_copy(self, l, list_sort(self, l))

sort_children(self, l) ==
    IF self \in Folders THEN Folder_sort_children(self, l)
    ELSE GenericRemoteContainer_sort_children(self, l)

(***************************************************************************)
(* add_child and del_child, as functions of the container's state: each    *)
(* gives the child list and the counters the call leaves behind, and how   *)
(* the call ended.                                                         *)
(***************************************************************************)
InList(l, x) == \E i \in 1..Len(l) : l[i] = x

\* list.remove(x): drops the first occurrence of x
RECURSIVE list_remove(_, _)
list_remove(l, x) ==
    IF l = <<>> THEN <<>>
    ELSE IF Head(l) = x THEN Tail(l)
    ELSE <<Head(l)>> \o list_remove(Tail(l), x)

\* add_child's shared part as it would be if it never sorted
AppendOnly(self, child_obj, no_sort_flag) ==
    [child_list |-> Append(child_list[self], child_obj),
     vid_count |-> IF isVideo(child_obj)
                   THEN vid_count[self] + 1 ELSE vid_count[self],
     raised |-> FALSE]

\* what add_child leaves when its sort ended as sorted tells
AddResult(child_obj, count, sorted) ==
    [child_list |-> sorted.list,
     vid_count |-> IF sorted.ok /\ isVideo(child_obj) THEN count + 1 ELSE count,
     raised |-> ~sorted.ok]

\* the part of add_child both classes share, after the accept condition
AppendAndSort(self, child_obj, no_sort_flag) ==
    AddResult(child_obj, vid_count[self],
              IF no_sort_flag
              THEN [list |-> Append(child_list[self], child_obj), ok |-> TRUE]
              ELSE sort_children(self, Append(child_list[self], child_obj)))

NoChange(self) ==
    [child_list |-> child_list[self], vid_count |-> vid_count[self],
     raised |-> FALSE]

\* add_child of a channel or playlist as it would be if it took every child
add_child_of_any(self, child_obj, no_sort_flag) ==
    AppendAndSort(self, child_obj, no_sort_flag)

\* add_child as it would be if it appended whatever it is given, unsorted
add_child_unsorted_of_any(self, child_obj, no_sort_flag) ==
    AppendAndSort(self, child_obj, TRUE)

GenericRemoteContainer_add_child(self, child_obj, no_sort_flag) ==
    IF isVideo(child_obj) \/ InList(child_list[self], child_obj)
    THEN AppendAndSort(self, child_obj, no_sort_flag)
    ELSE NoChange(self)

Folder_add_child(self, child_obj, no_sort_flag) ==
    IF ~InList(child_list[self], child_obj)
    THEN AppendAndSort(self, child_obj, no_sort_flag)
    ELSE NoChange(self)

add_child(self, child_obj, no_sort_flag) ==
    IF self \in Folders THEN Folder_add_child(self, child_obj, no_sort_flag)
    ELSE GenericRemoteContainer_add_child(self, child_obj, no_sort_flag)

OneIf(flag) == IF flag THEN 1 ELSE 0

\* del_child as it would be if it lowered dl_count for every removed video
del_child_dl_always(self, child_obj) ==
    IF ~InList(child_list[self], child_obj)
    THEN [val |-> FALSE, child_list |-> child_list[self],
          vid_count |-> vid_count[self],
          bookmark_count |-> bookmark_count[self],
          dl_count |-> dl_count[self],
          fav_count |-> fav_count[self],
          new_count |-> new_count[self],
          waiting_count |-> waiting_count[self]]
    ELSE LET v == isVideo(child_obj)
         IN  [val |-> TRUE,
              child_list |-> list_remove(child_list[self], child_obj),
              vid_count |-> vid_count[self] - OneIf(v),
              bookmark_count |->
                  bookmark_count[self] - OneIf(v /\ bookmark_flag[child_obj]),
              dl_count |-> dl_count[self] - OneIf(v),
              fav_count |-> fav_count[self] - OneIf(v /\ fav_flag[child_obj]),
              new_count |-> new_count[self] - OneIf(v /\ new_flag[child_obj]),
              waiting_count |->
                  waiting_count[self] - OneIf(v /\ waiting_flag[child_obj])]

del_child(self, child_obj) ==
    IF ~InList(child_list[self], child_obj)
    THEN [val |-> FALSE, child_list |-> child_list[self],
          vid_count |-> vid_count[self],
          bookmark_count |-> bookmark_count[self],
          dl_count |-> dl_count[self],
          fav_count |-> fav_count[self],
          new_count |-> new_count[self],
          waiting_count |-> waiting_count[self]]
    ELSE LET v == isVideo(child_obj)
         IN  [val |-> TRUE,
              child_list |-> list_remove(child_list[self], child_obj),
              vid_count |-> vid_count[self] - OneIf(v),
              bookmark_count |->
                  bookmark_count[self] - OneIf(v /\ bookmark_flag[child_obj]),
              dl_count |-> dl_count[self] - OneIf(v /\ dl_flag[child_obj]),
              fav_count |-> fav_count[self] - OneIf(v /\ fav_flag[child_obj]),
              new_count |-> new_count[self] - OneIf(v /\ new_flag[child_obj]),
              waiting_count |->
                  waiting_count[self] - OneIf(v /\ waiting_flag[child_obj])]

\* the name argument each object is constructed with
NameArg(n) == IF n \in {2, 6} THEN "b" ELSE IF n = 3 THEN "A" ELSE "a"

(***************************************************************************)
(* The state after the construction of the root folder (dbid 1): the other *)
(* objects are not constructed yet; their fields hold the values their     *)
(* constructors will give them.                                            *)
(***************************************************************************)
Init ==
    /\ created = {1}
    /\ parent_obj = [n \in Nodes |-> None]
    /\ child_list = [c \in Containers |-> <<>>]
    /\ vid_count = [c \in Containers |-> 0]
    /\ bookmark_count = [c \in Containers |-> 0]
    /\ dl_count = [c \in Containers |-> 0]
    /\ fav_count = [c \in Containers |-> 0]
    /\ new_count = [c \in Containers |-> 0]
    /\ waiting_count = [c \in Containers |-> 0]
    /\ bookmark_flag = [v \in Videos |-> FALSE]
    /\ dl_flag = [v \in Videos |-> FALSE]
    /\ fav_flag = [v \in Videos |-> FALSE]
    /\ new_flag = [v \in Videos |-> FALSE]
    /\ waiting_flag = [v \in Videos |-> FALSE]
    /\ upload_time = [v \in Videos |-> None]
    /\ receive_time = [v \in Videos |-> None]
    /\ index = [v \in Videos |-> None]
    /\ name = [n \in Nodes |-> NameArg(n)]
    /\ nickname = [n \in Nodes |-> NameArg(n)]
    /\ priv_flag = [f \in Folders |-> FALSE]
    /\ source = [n \in Nodes \ Folders |-> NoName]
    /\ fixed_flag = [f \in Folders |-> FALSE]
    /\ hidden_flag = [f \in Folders |-> FALSE]
    /\ sorting = NoSort
    /\ master_dbid = [c \in Containers |-> c]
    /\ slave_dbid_list = [c \in Containers |-> <<>>]
    /\ media_reg_dict = {1}
    /\ ret = Call("init", 1, None, None, FALSE)

\* The number of entries of the list l that are videos with the flag
CountIn(l, flag) ==
    Cardinality({i \in 1..Len(l) : isVideo(l[i]) /\ flag[l[i]]})

Abs(x) == IF x < 0 THEN 0 - x ELSE x

\* How far the counters of the container c are from its child list
DriftAt(c) ==
    Abs(vid_count[c]
        - Cardinality({i \in 1..Len(child_list[c]) : isVideo(child_list[c][i])}))
    + Abs(bookmark_count[c] - CountIn(child_list[c], bookmark_flag))
    + Abs(dl_count[c] - CountIn(child_list[c], dl_flag))
    + Abs(fav_count[c] - CountIn(child_list[c], fav_flag))
    + Abs(new_count[c] - CountIn(child_list[c], new_flag))
    + Abs(waiting_count[c] - CountIn(child_list[c], waiting_flag))

\* The counters can fall and rise without end; the model follows the program
\* while they are off by MaxDrift at most, over all containers.
DriftIf(c) == IF c \in created THEN DriftAt(c) ELSE 0
Drift == DriftIf(1) + DriftIf(2) + DriftIf(3) + DriftIf(4)

DriftOK == Drift <= MaxDrift

(***************************************************************************)
(* The calls.                                                              *)
(***************************************************************************)
\* the state and the call record that the result r of add_child gives
StoreAddChild(op, self, child_obj, no_sort_flag, r) ==
    /\ child_list' = [child_list EXCEPT ![self] = r.child_list]
    /\ vid_count' = [vid_count EXCEPT ![self] = r.vid_count]
    /\ ret' = Call(op, self, child_obj, no_sort_flag, r.raised)

\* the effect of self.add_child(child_obj, no_sort_flag) on the state
DoAddChild(op, self, child_obj, no_sort_flag) ==
    StoreAddChild(op, self, child_obj, no_sort_flag,
                  add_child(self, child_obj, no_sort_flag))

\* media.Video(dbid, name, parent_obj, no_sort_flag=...)
NewVideo(v, p, no_sort_flag) ==
    /\ v \in Videos \ created
    /\ p \in created \cap Containers
    /\ Len(child_list[p]) < MaxLen
    /\ created' = created \cup {v}
    /\ parent_obj' = [parent_obj EXCEPT ![v] = p]
    /\ DoAddChild("Video", p, v, no_sort_flag)
    /\ UNCHANGED <<bookmark_count, dl_count, fav_count, new_count,
                   waiting_count, flagVars, keyVars, nameVars, priv_flag,
                   exportVars, sorting,
                   aliasVars>>
    /\ DriftOK'

\* media.Channel(...), media.Playlist(...), media.Folder(...): the class is
\* that of the dbid; priv is the priv_flag argument of media.Folder
NewContainer(c, p, priv) ==
    /\ c \in Containers \ created
    /\ p \in (created \cap Containers) \cup {None}
    /\ c \in Folders \/ ~priv
    /\ created' = created \cup {c}
    /\ parent_obj' = [parent_obj EXCEPT ![c] = p]
    /\ priv_flag' = IF c \in Folders THEN [priv_flag EXCEPT ![c] = priv]
                    ELSE priv_flag
    /\ IF p # None
       THEN DoAddChild(get_type(c), p, c, FALSE)
       ELSE /\ ret' = Call(get_type(c), None, c, FALSE, FALSE)
            /\ UNCHANGED <<child_list, vid_count>>
    /\ UNCHANGED <<bookmark_count, dl_count, fav_count, new_count,
                   waiting_count, flagVars, keyVars, nameVars, exportVars,
                   sorting, aliasVars>>
    /\ DriftOK'

AddChild(self, child_obj, no_sort_flag) ==
    /\ self \in created \cap Containers
    /\ child_obj \in created \ {self}
    /\ Len(child_list[self]) < MaxLen
    /\ DoAddChild("add_child", self, child_obj, no_sort_flag)
    /\ UNCHANGED <<created, parent_obj, bookmark_count, dl_count, fav_count,
                   new_count, waiting_count, flagVars, keyVars, nameVars,
                   priv_flag, exportVars, sorting, aliasVars>>
    /\ DriftOK'

\* the state and the call record that the result r of del_child gives
StoreDelChild(self, child_obj, r) ==
    /\ child_list' = [child_list EXCEPT ![self] = r.child_list]
    /\ vid_count' = [vid_count EXCEPT ![self] = r.vid_count]
    /\ bookmark_count' = [bookmark_count EXCEPT ![self] = r.bookmark_count]
    /\ dl_count' = [dl_count EXCEPT ![self] = r.dl_count]
    /\ fav_count' = [fav_count EXCEPT ![self] = r.fav_count]
    /\ new_count' = [new_count EXCEPT ![self] = r.new_count]
    /\ waiting_count' = [waiting_count EXCEPT ![self] = r.waiting_count]
    /\ ret' = Call("del_child", self, child_obj, r.val, FALSE)

DelChild(self, child_obj) ==
    /\ self \in created \cap Containers
    /\ child_obj \in created
    /\ StoreDelChild(self, child_obj, del_child(self, child_obj))
    /\ UNCHANGED <<created, parent_obj, flagVars, keyVars, nameVars,
                   priv_flag, exportVars, sorting, aliasVars>>
    /\ DriftOK'

\* the state and the call record that the result r of sort_children gives;
\* the record keeps the list the call began with
StoreSortChildren(self, r) ==
    /\ child_list' = [child_list EXCEPT ![self] = r.list]
    /\ ret' = Call("sort_children", self, child_list[self], None, ~r.ok)

SortChildren(self) ==
    /\ self \in created \cap Containers
    /\ StoreSortChildren(self, sort_children(self, child_list[self]))
    /\ UNCHANGED <<created, parent_obj, countVars, flagVars, keyVars,
                   nameVars, priv_flag, exportVars, sorting, aliasVars>>

\* the number of video flags that are set
FlagsSet ==
    Cardinality({v \in Videos : bookmark_flag[v]})
    + Cardinality({v \in Videos : dl_flag[v]})
    + Cardinality({v \in Videos : fav_flag[v]})
    + Cardinality({v \in Videos : new_flag[v]})
    + Cardinality({v \in Videos : waiting_flag[v]})

FlagRoom(flag) == flag => FlagsSet < MaxFlags

treeFrame == <<created, parent_obj, child_list, countVars, nameVars,
               priv_flag, exportVars, sorting, aliasVars>>

SetBookmarkFlag(v, flag) ==
    /\ v \in created \cap Videos
    /\ FlagRoom(flag)
    /\ bookmark_flag' = [bookmark_flag EXCEPT ![v] = flag]
    /\ ret' = Call("set_flag", None, None, None, FALSE)
    /\ UNCHANGED <<treeFrame, dl_flag, fav_flag, new_flag, waiting_flag,
                   keyVars>>
    /\ DriftOK'

\* time.time() is any moment of the model's clock
SetDlFlag(v, flag, now) ==
    /\ v \in created \cap Videos
    /\ FlagRoom(flag)
    /\ dl_flag' = [dl_flag EXCEPT ![v] = flag]
    /\ receive_time' = IF receive_time[v] = None
                       THEN [receive_time EXCEPT ![v] = now]
                       ELSE receive_time
    /\ ret' = Call("set_flag", None, None, None, FALSE)
    /\ UNCHANGED <<treeFrame, bookmark_flag, fav_flag, new_flag,
                   waiting_flag, upload_time, index>>
    /\ DriftOK'

SetFavFlag(v, flag) ==
    /\ v \in created \cap Videos
    /\ FlagRoom(flag)
    /\ fav_flag' = [fav_flag EXCEPT ![v] = flag]
    /\ ret' = Call("set_flag", None, None, None, FALSE)
    /\ UNCHANGED <<treeFrame, bookmark_flag, dl_flag, new_flag, waiting_flag,
                   keyVars>>
    /\ DriftOK'

SetNewFlag(v, flag) ==
    /\ v \in created \cap Videos
    /\ FlagRoom(flag)
    /\ new_flag' = [new_flag EXCEPT ![v] = flag]
    /\ ret' = Call("set_flag", None, None, None, FALSE)
    /\ UNCHANGED <<treeFrame, bookmark_flag, dl_flag, fav_flag, waiting_flag,
                   keyVars>>
    /\ DriftOK'

SetWaitingFlag(v, flag) ==
    /\ v \in created \cap Videos
    /\ FlagRoom(flag)
    /\ waiting_flag' = [waiting_flag EXCEPT ![v] = flag]
    /\ ret' = Call("set_flag", None, None, None, FALSE)
    /\ UNCHANGED <<treeFrame, bookmark_flag, dl_flag, fav_flag, new_flag,
                   keyVars>>
    /\ DriftOK'

SetUploadTime(v, unix_time) ==
    /\ v \in created \cap Videos
    /\ upload_time' = [upload_time EXCEPT ![v] = unix_time]
    /\ ret' = Call("set_upload_time", v, None, None, FALSE)
    /\ UNCHANGED <<treeFrame, flagVars, receive_time, index>>

SetReceiveTime(v, now) ==
    /\ v \in created \cap Videos
    /\ receive_time' = [receive_time EXCEPT ![v] = now]
    /\ ret' = Call("set_receive_time", v, None, None, FALSE)
    /\ UNCHANGED <<treeFrame, flagVars, upload_time, index>>

\* idx is None or an index
SetIndex(v, idx) ==
    /\ v \in created \cap Videos
    /\ index' = [index EXCEPT ![v] = idx]
    /\ ret' = Call("set_index", v, None, None, FALSE)
    /\ UNCHANGED <<treeFrame, flagVars, upload_time, receive_time>>

\* Video.set_name leaves the nickname alone; GenericContainer.set_name moves
\* a nickname that still equals the old name
SetName(n, nm) ==
    /\ n \in created
    /\ name' = [name EXCEPT ![n] = nm]
    /\ nickname' = IF n \in Containers /\ nickname[n] = name[n]
                   THEN [nickname EXCEPT ![n] = nm]
                   ELSE nickname
    /\ ret' = Call("set_name", n, None, None, FALSE)
    /\ UNCHANGED <<created, parent_obj, child_list, countVars, flagVars,
                   keyVars, priv_flag, exportVars, sorting, aliasVars>>

\* inc_bookmark_count and the other four: the caller that has set the flag
\* of a child video counts it in; the model lets it do so while the counter
\* is behind
IncCount(opname, self, count, flag) ==
    /\ self \in created \cap Containers
    /\ count[self] < CountIn(child_list[self], flag)
    /\ ret' = Call(opname, None, None, None, FALSE)
    /\ UNCHANGED <<treeVars, flagVars, keyVars, nameVars, priv_flag,
                   exportVars, sorting,
                   aliasVars>>

IncBookmarkCount(self) ==
    /\ IncCount("inc_count", self, bookmark_count, bookmark_flag)
    /\ bookmark_count' = [bookmark_count EXCEPT ![self] = @ + 1]
    /\ UNCHANGED <<vid_count, dl_count, fav_count, new_count, waiting_count>>

IncDlCount(self) ==
    /\ IncCount("inc_count", self, dl_count, dl_flag)
    /\ dl_count' = [dl_count EXCEPT ![self] = @ + 1]
    /\ UNCHANGED <<vid_count, bookmark_count, fav_count, new_count,
                   waiting_count>>

IncFavCount(self) ==
    /\ IncCount("inc_count", self, fav_count, fav_flag)
    /\ fav_count' = [fav_count EXCEPT ![self] = @ + 1]
    /\ UNCHANGED <<vid_count, bookmark_count, dl_count, new_count,
                   waiting_count>>

IncNewCount(self) ==
    /\ IncCount("inc_count", self, new_count, new_flag)
    /\ new_count' = [new_count EXCEPT ![self] = @ + 1]
    /\ UNCHANGED <<vid_count, bookmark_count, dl_count, fav_count,
                   waiting_count>>

IncWaitingCount(self) ==
    /\ IncCount("inc_count", self, waiting_count, waiting_flag)
    /\ waiting_count' = [waiting_count EXCEPT ![self] = @ + 1]
    /\ UNCHANGED <<vid_count, bookmark_count, dl_count, fav_count,
                   new_count>>

(***************************************************************************)
(* Spec: the child lists, the six counters and the video flags of a tree   *)
(* that has been constructed: the root folder 1 holds the channel 3 and    *)
(* the video 5, the channel holds the video 6.  No upload time or index is *)
(* set here, so every comparison of two videos is a tie; the ordering and  *)
(* the constructors have their own specifications below.                   *)
(***************************************************************************)
SpecNodes == {1, 3, 5, 6}
\* the videos whose flags the callers set
FlagVideos == {5}

InitTree ==
    /\ created = SpecNodes
    /\ parent_obj = [n \in Nodes |-> IF n \in {3, 5} THEN 1
                                     ELSE IF n = 6 THEN 3 ELSE None]
    /\ child_list = [c \in Containers |-> IF c = 1 THEN <<3, 5>>
                                          ELSE IF c = 3 THEN <<6>> ELSE <<>>]
    /\ vid_count = [c \in Containers |-> IF c \in {1, 3} THEN 1 ELSE 0]
    /\ bookmark_count = [c \in Containers |-> 0]
    /\ dl_count = [c \in Containers |-> 0]
    /\ fav_count = [c \in Containers |-> 0]
    /\ new_count = [c \in Containers |-> 0]
    /\ waiting_count = [c \in Containers |-> 0]
    /\ bookmark_flag = [v \in Videos |-> FALSE]
    /\ dl_flag = [v \in Videos |-> FALSE]
    /\ fav_flag = [v \in Videos |-> FALSE]
    /\ new_flag = [v \in Videos |-> FALSE]
    /\ waiting_flag = [v \in Videos |-> FALSE]
    /\ upload_time = [v \in Videos |-> None]
    /\ receive_time = [v \in Videos |-> None]
    /\ index = [v \in Videos |-> None]
    /\ name = [n \in Nodes |-> NameArg(n)]
    /\ nickname = [n \in Nodes |-> NameArg(n)]
    /\ priv_flag = [f \in Folders |-> FALSE]
    /\ source = [n \in Nodes \ Folders |-> NoName]
    /\ fixed_flag = [f \in Folders |-> FALSE]
    /\ hidden_flag = [f \in Folders |-> FALSE]
    /\ sorting = NoSort
    /\ master_dbid = [c \in Containers |-> c]
    /\ slave_dbid_list = [c \in Containers |-> <<>>]
    /\ media_reg_dict = {1, 3}
    /\ ret = Call("init", None, None, None, FALSE)

Next ==
    \/ \E c \in SpecNodes, x \in SpecNodes : AddChild(c, x, FALSE)
    \/ \E c \in SpecNodes, x \in SpecNodes : DelChild(c, x)
    \/ \E v \in FlagVideos, flag \in BOOLEAN : SetBookmarkFlag(v, flag)
    \/ \E v \in FlagVideos, flag \in BOOLEAN, now \in ReceiveTimes :
           SetDlFlag(v, flag, now)
    \/ \E v \in FlagVideos, flag \in BOOLEAN : SetFavFlag(v, flag)
    \/ \E v \in FlagVideos, flag \in BOOLEAN : SetNewFlag(v, flag)
    \/ \E v \in FlagVideos, flag \in BOOLEAN : SetWaitingFlag(v, flag)
    \/ \E c \in SpecNodes : IncBookmarkCount(c)
    \/ \E c \in SpecNodes : IncDlCount(c)
    \/ \E c \in SpecNodes : IncFavCount(c)
    \/ \E c \in SpecNodes : IncNewCount(c)
    \/ \E c \in SpecNodes : IncWaitingCount(c)

Spec == InitTree /\ [][Next]_vars

(***************************************************************************)
(* SpecFlags: the same tree under the calls that media.py makes on the     *)
(* counters by itself: the construction of a Video, add_child, del_child   *)
(* and the flag setters of a Video.  No inc_*, dec_* or reset_counts is    *)
(* called from outside.                                                    *)
(***************************************************************************)
\* the video that is constructed; it and the flagged video are added and deleted
BuiltVideos == {7}

NextFlags ==
    \/ \E v \in BuiltVideos, p \in SpecNodes, no_sort_flag \in BOOLEAN :
           NewVideo(v, p, no_sort_flag)
    \/ \E c \in SpecNodes, x \in FlagVideos \cup BuiltVideos :
           AddChild(c, x, FALSE)
    \/ \E c \in SpecNodes, x \in FlagVideos \cup BuiltVideos : DelChild(c, x)
    \/ \E v \in FlagVideos, flag \in BOOLEAN : SetBookmarkFlag(v, flag)
    \/ \E v \in FlagVideos, flag \in BOOLEAN, now \in ReceiveTimes :
           SetDlFlag(v, flag, now)
    \/ \E v \in FlagVideos, flag \in BOOLEAN : SetFavFlag(v, flag)
    \/ \E v \in FlagVideos, flag \in BOOLEAN : SetNewFlag(v, flag)
    \/ \E v \in FlagVideos, flag \in BOOLEAN : SetWaitingFlag(v, flag)

SpecFlags == InitTree /\ [][NextFlags]_vars

(***************************************************************************)
(* recalculate_counts and reset_counts.                                    *)
(***************************************************************************)
\* the six counters of a container as one record
Counts(self) ==
    [vid_count |-> vid_count[self], bookmark_count |-> bookmark_count[self],
     dl_count |-> dl_count[self], fav_count |-> fav_count[self],
     new_count |-> new_count[self], waiting_count |-> waiting_count[self]]

\* the assignments of recalculate_counts before its loop
ZeroCounts ==
    [vid_count |-> 0, bookmark_count |-> 0, dl_count |-> 0, fav_count |-> 0,
     new_count |-> 0, waiting_count |-> 0]

\* the body of the loop of recalculate_counts for a child that is a Video
recount_video(v, c) ==
    [vid_count |-> c.vid_count + 1,
     bookmark_count |-> c.bookmark_count + (IF bookmark_flag[v] THEN 1 ELSE 0),
     dl_count |-> c.dl_count + (IF dl_flag[v] THEN 1 ELSE 0),
     fav_count |-> c.fav_count + (IF fav_flag[v] THEN 1 ELSE 0),
     new_count |-> c.new_count + (IF new_flag[v] THEN 1 ELSE 0),
     waiting_count |-> c.waiting_count + (IF waiting_flag[v] THEN 1 ELSE 0)]

\* the loop of recalculate_counts over the child list l, c being the counters
\* so far
RECURSIVE recount(_, _)
recount(l, c) ==
    IF l = <<>> THEN c
    ELSE recount(Tail(l),
                 IF isVideo(Head(l)) THEN recount_video(Head(l), c) ELSE c)

\* recalculate_counts as it would be without the six assignments of 0
recalculate_counts_not_zeroed(self) == recount(child_list[self], Counts(self))

\* the counters recalculate_counts leaves in the container
recalculate_counts(self) == recount(child_list[self], ZeroCounts)

\* the six counters of the container become those of the record c
SetCounts(self, c) ==
    /\ vid_count' = [vid_count EXCEPT ![self] = c.vid_count]
    /\ bookmark_count' = [bookmark_count EXCEPT ![self] = c.bookmark_count]
    /\ dl_count' = [dl_count EXCEPT ![self] = c.dl_count]
    /\ fav_count' = [fav_count EXCEPT ![self] = c.fav_count]
    /\ new_count' = [new_count EXCEPT ![self] = c.new_count]
    /\ waiting_count' = [waiting_count EXCEPT ![self] = c.waiting_count]

countFrame == <<treeVars, flagVars, keyVars, nameVars, priv_flag, exportVars,
                sorting, aliasVars>>

\* arg of the call record: the counters the call found
RecalculateCounts(self) ==
    /\ self \in created \cap Containers
    /\ SetCounts(self, recalculate_counts(self))
    /\ ret' = Call("recalculate_counts", self, Counts(self), None, FALSE)
    /\ UNCHANGED countFrame

\* reset_counts(vid_count, bookmark_count, dl_count, fav_count, new_count,
\* waiting_count), args being the six arguments in this order
ResetCounts(self, args) ==
    /\ self \in created \cap Containers
    /\ SetCounts(self, [vid_count |-> args[1], bookmark_count |-> args[2],
                        dl_count |-> args[3], fav_count |-> args[4],
                        new_count |-> args[5], waiting_count |-> args[6]])
    /\ ret' = Call("reset_counts", self, args, None, FALSE)
    /\ UNCHANGED countFrame

(***************************************************************************)
(* SpecRecalc: the tree of Spec under reset_counts, which leaves any       *)
(* values in the counters, recalculate_counts, and the calls that change   *)
(* the children and their flags.                                           *)
(***************************************************************************)
\* the values reset_counts is called with, too low and too high, the six
\* arguments of one call being the same value
ResetValues == {-1, 3}
ResetArgs == {[i \in 1..6 |-> k] : k \in ResetValues}
\* the videos that are added and deleted
RecalcVideos == {5, 6}

NextRecalc ==
    \/ \E c \in SpecNodes, args \in ResetArgs : ResetCounts(c, args)
    \/ \E c \in SpecNodes : RecalculateCounts(c)
    \/ \E c \in SpecNodes, x \in RecalcVideos : AddChild(c, x, FALSE)
    \/ \E c \in SpecNodes, x \in RecalcVideos : DelChild(c, x)
    \/ \E v \in FlagVideos, flag \in BOOLEAN : SetBookmarkFlag(v, flag)
    \/ \E v \in FlagVideos, flag \in BOOLEAN, now \in ReceiveTimes :
           SetDlFlag(v, flag, now)
    \/ \E v \in FlagVideos, flag \in BOOLEAN : SetFavFlag(v, flag)
    \/ \E v \in FlagVideos, flag \in BOOLEAN : SetNewFlag(v, flag)
    \/ \E v \in FlagVideos, flag \in BOOLEAN : SetWaitingFlag(v, flag)

SpecRecalc == InitTree /\ [][NextRecalc]_vars

(***************************************************************************)
(* SpecSort: sort_children as a function of the child list and of the      *)
(* children's fields.  The initial states are the lists and fields that    *)
(* add_child with no_sort_flag=True and the setters can leave behind.      *)
(* Either the three videos are the children of the channel 3 or of the     *)
(* playlist 4, with any upload time, receive time and index (do_sort never *)
(* looks at a dbid, so every order of three videos is the order 5, 6, 7    *)
(* with some choice of the fields); or the folder 1 holds the folder 2,    *)
(* the channel, the playlist and the videos 5 and 6, in any order, with    *)
(* any name of the playlist, any times of the videos and either priv_flag. *)
(***************************************************************************)
Perms(S) ==
    {l \in [1..Cardinality(S) -> S] : \A i, j \in 1..Cardinality(S) :
                                          l[i] = l[j] => i = j}

FolderChildren == {2, 3, 4, 5, 6}

InitSortFixed ==
    /\ created = Nodes
    /\ bookmark_count = [c \in Containers |-> 0]
    /\ dl_count = [c \in Containers |-> 0]
    /\ fav_count = [c \in Containers |-> 0]
    /\ new_count = [c \in Containers |-> 0]
    /\ waiting_count = [c \in Containers |-> 0]
    /\ bookmark_flag = [v \in Videos |-> FALSE]
    /\ dl_flag = [v \in Videos |-> FALSE]
    /\ fav_flag = [v \in Videos |-> FALSE]
    /\ new_flag = [v \in Videos |-> FALSE]
    /\ waiting_flag = [v \in Videos |-> FALSE]
    /\ master_dbid = [c \in Containers |-> c]
    /\ slave_dbid_list = [c \in Containers |-> <<>>]
    /\ media_reg_dict = Containers
    /\ ret = Call("init", None, None, None, FALSE)

InitSortRemote ==
    /\ parent_obj = [n \in Nodes |-> IF n \in {2, 3, 4} THEN 1
                                     ELSE IF n \in Videos THEN 4 ELSE None]
    /\ \E k \in {3, 4} :
           /\ child_list = [c \in Containers |-> IF c = k THEN <<5, 6, 7>>
                                                  ELSE IF c = 1 THEN <<2, 3, 4>>
                                                  ELSE <<>>]
           /\ vid_count = [c \in Containers |-> IF c = k THEN 3 ELSE 0]
    /\ upload_time \in [Videos -> {None} \cup UploadTimes]
    /\ receive_time \in [Videos -> {None} \cup ReceiveTimes]
    /\ index \in [Videos -> {None} \cup Indexes]
    /\ name = [n \in Nodes |-> NameArg(n)]
    /\ nickname = [n \in Nodes |-> NameArg(n)]
    /\ priv_flag = [f \in Folders |-> FALSE]
    /\ source = [n \in Nodes \ Folders |-> NoName]
    /\ fixed_flag = [f \in Folders |-> FALSE]
    /\ hidden_flag = [f \in Folders |-> FALSE]
    /\ sorting = NoSort

InitSortFolder ==
    /\ parent_obj = [n \in Nodes |-> IF n \in FolderChildren THEN 1
                                     ELSE IF n = 7 THEN 4 ELSE None]
    /\ \E l \in Perms(FolderChildren) :
           child_list = [c \in Containers |-> IF c = 1 THEN l
                                              ELSE IF c = 4 THEN <<7>>
                                              ELSE <<>>]
    /\ vid_count = [c \in Containers |-> IF c = 1 THEN 2
                                         ELSE IF c = 4 THEN 1 ELSE 0]
    /\ \E u \in [{5, 6} -> {None} \cup UploadTimes] :
           upload_time = [v \in Videos |-> IF v = 7 THEN None ELSE u[v]]
    /\ \E r \in [{5, 6} -> {None} \cup ReceiveTimes] :
           receive_time = [v \in Videos |-> IF v = 7 THEN None ELSE r[v]]
    /\ index = [v \in Videos |-> None]
    /\ \E nm \in Names :
           name = [n \in Nodes |-> IF n = 4 THEN nm ELSE NameArg(n)]
    /\ nickname = [n \in Nodes |-> NameArg(n)]
    /\ \E priv \in BOOLEAN : priv_flag = [f \in Folders |-> f = 1 /\ priv]
    /\ source = [n \in Nodes \ Folders |-> NoName]
    /\ fixed_flag = [f \in Folders |-> FALSE]
    /\ hidden_flag = [f \in Folders |-> FALSE]
    /\ sorting = NoSort

InitSort == InitSortFixed /\ (InitSortRemote \/ InitSortFolder)

NextSort == \E c \in Containers : SortChildren(c)

SpecSort == InitSort /\ [][NextSort]_vars

(***************************************************************************)
(* SpecTie: sort_children of three videos whose receive times differ.  The *)
(* videos are the children of the folder 1, of the channel 3 or of the     *)
(* playlist 4; each has the upload time 1 or none, a receive time 1 or 2   *)
(* or none, and no index; the folder has either priv_flag.                 *)
(***************************************************************************)
TieUploadTimes == {1}
TieReceiveTimes == {1, 2}
TieContainers == {1, 3, 4}

InitTieFields ==
    /\ parent_obj \in {[n \in Nodes |-> IF n \in Videos THEN k ELSE None] :
                          k \in TieContainers}
    /\ child_list = [c \in Containers |-> IF c = parent_obj[5]
                                          THEN <<5, 6, 7>> ELSE <<>>]
    /\ vid_count = [c \in Containers |-> IF c = parent_obj[5] THEN 3 ELSE 0]
    /\ upload_time \in [Videos -> {None} \cup TieUploadTimes]
    /\ receive_time \in [Videos -> {None} \cup TieReceiveTimes]
    /\ index = [v \in Videos |-> None]
    /\ name = [n \in Nodes |-> NameArg(n)]
    /\ nickname = [n \in Nodes |-> NameArg(n)]
    /\ priv_flag \in {[f \in Folders |-> f = 1 /\ priv] : priv \in BOOLEAN}
    /\ source = [n \in Nodes \ Folders |-> NoName]
    /\ fixed_flag = [f \in Folders |-> FALSE]
    /\ hidden_flag = [f \in Folders |-> FALSE]
    /\ sorting = NoSort

InitTie == InitSortFixed /\ InitTieFields

SpecTie == InitTie /\ [][NextSort]_vars

(***************************************************************************)
(* SpecOrder: the child lists under the calls that change them or the      *)
(* fields they are ordered by.  The root folder 1 holds the channel 3 and  *)
(* the playlist 4; the playlist holds the video 5, whose upload time,      *)
(* receive time and index have been set.  The video 6 is constructed in    *)
(* the playlist, with or without no_sort_flag, and its fields are set; the *)
(* channel is renamed; children are added, deleted and sorted.             *)
(***************************************************************************)
OrderContainers == {1, 4}
OrderChildren == {3, 5, 6}

InitOrder ==
    /\ created = {1, 3, 4, 5}
    /\ parent_obj = [n \in Nodes |-> IF n \in {3, 4} THEN 1
                                     ELSE IF n = 5 THEN 4 ELSE None]
    /\ child_list = [c \in Containers |-> IF c = 1 THEN <<3, 4>>
                                          ELSE IF c = 4 THEN <<5>> ELSE <<>>]
    /\ vid_count = [c \in Containers |-> IF c = 4 THEN 1 ELSE 0]
    /\ bookmark_count = [c \in Containers |-> 0]
    /\ dl_count = [c \in Containers |-> 0]
    /\ fav_count = [c \in Containers |-> 0]
    /\ new_count = [c \in Containers |-> 0]
    /\ waiting_count = [c \in Containers |-> 0]
    /\ bookmark_flag = [v \in Videos |-> FALSE]
    /\ dl_flag = [v \in Videos |-> FALSE]
    /\ fav_flag = [v \in Videos |-> FALSE]
    /\ new_flag = [v \in Videos |-> FALSE]
    /\ waiting_flag = [v \in Videos |-> FALSE]
    /\ upload_time = [v \in Videos |-> IF v = 5 THEN 2 ELSE None]
    /\ receive_time = [v \in Videos |-> IF v = 5 THEN 1 ELSE None]
    /\ index = [v \in Videos |-> IF v = 5 THEN 2 ELSE None]
    /\ name = [n \in Nodes |-> NameArg(n)]
    /\ nickname = [n \in Nodes |-> NameArg(n)]
    /\ priv_flag = [f \in Folders |-> FALSE]
    /\ source = [n \in Nodes \ Folders |-> NoName]
    /\ fixed_flag = [f \in Folders |-> FALSE]
    /\ hidden_flag = [f \in Folders |-> FALSE]
    /\ sorting = NoSort
    /\ master_dbid = [c \in Containers |-> c]
    /\ slave_dbid_list = [c \in Containers |-> <<>>]
    /\ media_reg_dict = {1, 3, 4}
    /\ ret = Call("init", None, None, None, FALSE)

NextOrder ==
    \/ \E no_sort_flag \in BOOLEAN : NewVideo(6, 4, no_sort_flag)
    \/ \E c \in OrderContainers, x \in OrderChildren, no_sort_flag \in BOOLEAN :
           AddChild(c, x, no_sort_flag)
    \/ \E c \in OrderContainers, x \in OrderChildren : DelChild(c, x)
    \/ \E c \in OrderContainers : SortChildren(c)
    \/ \E unix_time \in UploadTimes : SetUploadTime(6, unix_time)
    \/ \E now \in ReceiveTimes : SetReceiveTime(6, now)
    \/ \E idx \in {None} \cup Indexes : SetIndex(6, idx)
    \/ \E nm \in Names : SetName(3, nm)

SpecOrder == InitOrder /\ [][NextOrder]_vars

(***************************************************************************)
(* SpecNew: the constructors.  From the root folder alone, the other       *)
(* folder, the channel and the playlist are constructed with no parent or  *)
(* in any container there is, the videos in any container there is;        *)
(* children are deleted and the parent of a video is set.                  *)
(***************************************************************************)
\* GenericMedia.set_parent_obj, which every class inherits
SetParentObj(n, p) ==
    /\ n \in created
    /\ p \in (created \cap Containers) \cup {None}
    /\ parent_obj' = [parent_obj EXCEPT ![n] = p]
    /\ ret' = Call("set_parent_obj", n, p, None, FALSE)
    /\ UNCHANGED <<created, child_list, countVars, flagVars, keyVars,
                   nameVars, priv_flag, exportVars, sorting, aliasVars>>

\* the videos that are constructed, and the one that is deleted and moved
NewVideos == {5, 6}
MovedVideos == {5}

NextNew ==
    \/ \E c \in Containers, p \in Containers \cup {None}, priv \in BOOLEAN :
           NewContainer(c, p, priv)
    \/ \E v \in NewVideos, p \in Containers, no_sort_flag \in BOOLEAN :
           NewVideo(v, p, no_sort_flag)
    \/ \E c \in Containers, x \in MovedVideos : DelChild(c, x)
    \/ \E v \in MovedVideos, p \in Containers \cup {None} : SetParentObj(v, p)

SpecNew == Init /\ [][NextNew]_vars

(***************************************************************************)
(* SpecName: the names and nicknames of the constructed nodes of           *)
(* InitOrder, a folder, a channel, a playlist and a video.                 *)
(***************************************************************************)
\* GenericMedia.set_nickname; NoName stands for the arguments None and ''
SetNickname(n, nick) ==
    /\ n \in created
    /\ nickname' = [nickname EXCEPT ![n] = IF nick = NoName THEN name[n]
                                           ELSE nick]
    /\ ret' = Call("set_nickname", n, None, None, FALSE)
    /\ UNCHANGED <<created, parent_obj, child_list, countVars, flagVars,
                   keyVars, name, priv_flag, exportVars, sorting, aliasVars>>

NextName ==
    \/ \E n \in Nodes, nm \in Names : SetName(n, nm)
    \/ \E n \in Nodes, nick \in Names \cup {NoName} : SetNickname(n, nick)

SpecName == InitOrder /\ [][NextName]_vars

(***************************************************************************)
(* The functions that walk the tree: compile_all_videos goes down the      *)
(* child lists, get_depth goes up the parents.                             *)
(***************************************************************************)
\* compile_all_videos: the for loop over the child list l, video_list being
\* the list as it stands
RECURSIVE compile_all_videos(_, _)
RECURSIVE compile_children(_, _)
compile_children(l, video_list) ==
    IF l = <<>> THEN video_list
    ELSE compile_children(Tail(l),
             IF isVideo(Head(l)) THEN Append(video_list, Head(l))
             ELSE compile_all_videos(Head(l), video_list))

compile_all_videos(self, video_list) ==
    compile_children(child_list[self], video_list)

\* get_depth: the while loop, parent being the parent the loop stands at
RECURSIVE depth_loop(_, _)
depth_loop(level, parent) ==
    IF parent # None THEN depth_loop(level + 1, parent_obj[parent])
    ELSE level

\* get_depth as it would be if its loop began to count at 0
get_depth_from_zero(self) ==
    IF parent_obj[self] = None THEN 1 ELSE depth_loop(0, parent_obj[self])

get_depth(self) ==
    IF parent_obj[self] = None THEN 1 ELSE depth_loop(1, parent_obj[self])

\* count_descendants: what the loop does for a child that is a container,
\* count_list being what the child's own count_descendants returned
count_container(child_obj, count_list) ==
    [count_list EXCEPT ![IF child_obj \in Channels THEN 3
                         ELSE IF child_obj \in Playlists THEN 4 ELSE 5] = @ + 1]

\* count_descendants: the for loop over the child list l; count_list[0] of
\* Python is count_list[1] here
RECURSIVE count_descendants(_, _)
RECURSIVE count_children(_, _)
count_child(child_obj, count_list) ==
    IF isVideo(child_obj) THEN [count_list EXCEPT ![2] = @ + 1]
    ELSE count_container(child_obj, count_descendants(child_obj, count_list))

count_children(l, count_list) ==
    IF l = <<>> THEN count_list
    ELSE count_children(Tail(l),
                        count_child(Head(l), [count_list EXCEPT ![1] = @ + 1]))

count_descendants(self, count_list) ==
    count_children(child_list[self], count_list)

\* is_hidden: the while loop, parent being the parent the loop stands at
RECURSIVE hidden_loop(_)
hidden_loop(parent) ==
    IF parent = None THEN FALSE
    ELSE IF parent \in Folders /\ hidden_flag[parent] THEN TRUE
    ELSE hidden_loop(parent_obj[parent])

\* is_hidden as it would be if it looked at no parent but the first
is_hidden_first_parent(self) ==
    IF self \in Folders /\ hidden_flag[self] THEN TRUE
    ELSE IF parent_obj[self] = None THEN FALSE
    ELSE parent_obj[self] \in Folders /\ hidden_flag[parent_obj[self]]

is_hidden(self) ==
    IF self \in Folders /\ hidden_flag[self] THEN TRUE
    ELSE hidden_loop(parent_obj[self])

queryFrame == <<created, parent_obj, child_list, countVars, flagVars, keyVars,
                nameVars, priv_flag, exportVars, sorting, aliasVars>>

CompileAllVideos(self) ==
    /\ self \in created \cap Containers
    /\ ret' = Call("compile_all_videos", self, <<>>,
                   compile_all_videos(self, <<>>), FALSE)
    /\ UNCHANGED queryFrame

\* count_descendants, called with [0, 0, 0, 0, 0]
CountDescendants(self) ==
    /\ self \in created \cap Containers
    /\ ret' = Call("count_descendants", self, <<0, 0, 0, 0, 0>>,
                   count_descendants(self, <<0, 0, 0, 0, 0>>), FALSE)
    /\ UNCHANGED queryFrame

IsHidden(self) ==
    /\ self \in created \cap Containers
    /\ ret' = Call("is_hidden", self, None, is_hidden(self), FALSE)
    /\ UNCHANGED queryFrame

\* Folder.set_hidden_flag
SetHiddenFlag(f, flag) ==
    /\ f \in created \cap Folders
    /\ hidden_flag' = [hidden_flag EXCEPT ![f] = flag]
    /\ ret' = Call("set_hidden_flag", f, flag, None, FALSE)
    /\ UNCHANGED <<created, parent_obj, child_list, countVars, flagVars, keyVars,
                   nameVars, priv_flag, source, fixed_flag, sorting, aliasVars>>

GetDepth(self) ==
    /\ self \in created \cap Containers
    /\ ret' = Call("get_depth", self, None, get_depth(self), FALSE)
    /\ UNCHANGED queryFrame

\* the parent chain of p does not pass through n
RECURSIVE NotBelow(_, _)
NotBelow(p, n) ==
    IF p = None THEN TRUE
    ELSE IF p = n THEN FALSE
    ELSE NotBelow(parent_obj[p], n)

\* set_parent_obj of a container, called with a parent that is not the
\* container nor below it: the parent chains stay free of cycles
MoveContainer(c, p) ==
    /\ c \in Containers
    /\ NotBelow(p, c)
    /\ SetParentObj(c, p)

(***************************************************************************)
(* SpecTree: the walks over a constructed tree.  The root folder 1 holds   *)
(* the folder 2 and the video 5; the folder 2 holds the channel 3 and the  *)
(* playlist 4; the channel holds the videos 6 and 7.  Children are deleted *)
(* from their parents, videos are added to their parents (again, when they *)
(* are still there), containers are given another parent.                  *)
(***************************************************************************)
InitWalk ==
    /\ created = Nodes
    /\ parent_obj = [n \in Nodes |-> IF n \in {2, 5} THEN 1
                                     ELSE IF n \in {3, 4} THEN 2
                                     ELSE IF n \in {6, 7} THEN 3 ELSE None]
    /\ child_list = [c \in Containers |-> IF c = 1 THEN <<2, 5>>
                                          ELSE IF c = 2 THEN <<3, 4>>
                                          ELSE IF c = 3 THEN <<6, 7>>
                                          ELSE <<>>]
    /\ vid_count = [c \in Containers |-> IF c = 1 THEN 1
                                         ELSE IF c = 3 THEN 2 ELSE 0]
    /\ bookmark_count = [c \in Containers |-> 0]
    /\ dl_count = [c \in Containers |-> 0]
    /\ fav_count = [c \in Containers |-> 0]
    /\ new_count = [c \in Containers |-> 0]
    /\ waiting_count = [c \in Containers |-> 0]
    /\ bookmark_flag = [v \in Videos |-> FALSE]
    /\ dl_flag = [v \in Videos |-> FALSE]
    /\ fav_flag = [v \in Videos |-> FALSE]
    /\ new_flag = [v \in Videos |-> FALSE]
    /\ waiting_flag = [v \in Videos |-> FALSE]
    /\ upload_time = [v \in Videos |-> None]
    /\ receive_time = [v \in Videos |-> None]
    /\ index = [v \in Videos |-> None]
    /\ name = [n \in Nodes |-> NameArg(n)]
    /\ nickname = [n \in Nodes |-> NameArg(n)]
    /\ priv_flag = [f \in Folders |-> FALSE]
    /\ source = [n \in Nodes \ Folders |-> NoName]
    /\ fixed_flag = [f \in Folders |-> FALSE]
    /\ hidden_flag = [f \in Folders |-> FALSE]
    /\ sorting = NoSort
    /\ master_dbid = [c \in Containers |-> c]
    /\ slave_dbid_list = [c \in Containers |-> <<>>]
    /\ media_reg_dict = Containers
    /\ ret = Call("init", None, None, None, FALSE)

\* add_child of the parent of a video, called with the video
ReAddChild(v) ==
    /\ parent_obj[v] # None
    /\ AddChild(parent_obj[v], v, FALSE)

\* del_child of the parent of a node, called with the node
DelFromParent(x) ==
    /\ parent_obj[x] # None
    /\ DelChild(parent_obj[x], x)

\* the videos that are added, the children that are deleted and the
\* containers that get another parent
WalkVideos == {5, 6}
WalkDeleted == {4, 5, 6, 7}
WalkMoved == {3, 4}

NextTree ==
    \/ \E v \in WalkVideos : ReAddChild(v)
    \/ \E x \in WalkDeleted : DelFromParent(x)
    \/ \E c \in WalkMoved, p \in Containers \cup {None} : MoveContainer(c, p)
    \/ \E c \in Containers : CompileAllVideos(c)
    \/ \E c \in Containers : GetDepth(c)
    \/ \E c \in Containers : CountDescendants(c)
    \/ \E c \in Containers : IsHidden(c)
    \/ \E f \in Folders, flag \in BOOLEAN : SetHiddenFlag(f, flag)

SpecTree == InitWalk /\ [][NextTree]_vars

(***************************************************************************)
(* The export of the tree.  A dictionary is a function of its keys, and    *)
(* db_dict[key] = value gives the function DictSet.  A document is the     *)
(* dictionary with the keys type, dbid, name, nickname, source, db_dict;   *)
(* NoName stands for None in the fields that hold strings, NoDocument for  *)
(* the None that prepare_export returns in place of a document.            *)
(***************************************************************************)
Urls == {"u"}

NoDocument == [type |-> NoName]

DictSet(d, key, value) ==
    [k \in DOMAIN d \cup {key} |-> IF k = key THEN value ELSE d[k]]

\* the mini_dict of a video
video_mini_dict(child_obj) ==
    [type |-> "video", dbid |-> child_obj, name |-> name[child_obj],
     nickname |-> NoName, source |-> source[child_obj], db_dict |-> <<>>]

\* the export of a video child as it would be without the test of its source
export_video_of_any_source(db_dict, child_obj, include_video_flag) ==
    IF include_video_flag
    THEN DictSet(db_dict, child_obj, video_mini_dict(child_obj))
    ELSE db_dict

\* the body of the loops for a child that is a video
export_video(db_dict, child_obj, include_video_flag) ==
    IF include_video_flag /\ source[child_obj] # NoName
    THEN DictSet(db_dict, child_obj, video_mini_dict(child_obj))
    ELSE db_dict

\* if mini_dict: db_dict[child_obj.dbid] = mini_dict
export_container(db_dict, child_obj, mini_dict) ==
    IF mini_dict # NoDocument THEN DictSet(db_dict, child_obj, mini_dict)
    ELSE db_dict

\* the include flags of a call of prepare_export or prepare_flat_export
ExportArgs(include_video_flag, include_channel_flag, include_playlist_flag) ==
    [include_video_flag |-> include_video_flag,
     include_channel_flag |-> include_channel_flag,
     include_playlist_flag |-> include_playlist_flag]

\* the types that prepare_export and prepare_flat_export ignore
export_ignored(self, flags) ==
    IF isVideo(self) THEN TRUE
    ELSE IF self \in Channels THEN ~flags.include_channel_flag
    ELSE IF self \in Playlists THEN ~flags.include_playlist_flag
    ELSE fixed_flag[self]

RECURSIVE prepare_export(_, _)
RECURSIVE export_children(_, _, _)
\* prepare_export: the for loop over the child list l
export_children(l, db_dict, flags) ==
    IF l = <<>> THEN db_dict
    ELSE export_children(Tail(l),
             IF isVideo(Head(l))
             THEN export_video(db_dict, Head(l), flags.include_video_flag)
             ELSE export_container(db_dict, Head(l),
                                   prepare_export(Head(l), flags)),
             flags)

prepare_export(self, flags) ==
    IF export_ignored(self, flags)
    THEN NoDocument
    ELSE [type |-> get_type(self), dbid |-> self, name |-> name[self],
          nickname |-> nickname[self],
          source |-> IF self \in Folders THEN NoName ELSE source[self],
          db_dict |-> export_children(child_list[self], <<>>, flags)]

\* prepare_flat_export of a channel or playlist: the end, r being what the
\* for loop leaves in child_dict and db_dict
flat_store(self, r) ==
    DictSet(r.db_dict, self,
            [type |-> get_type(self), dbid |-> self, name |-> name[self],
             nickname |-> nickname[self], source |-> source[self],
             db_dict |-> r.child_dict])

RECURSIVE prepare_flat_export(_, _, _)
RECURSIVE flat_remote_children(_, _, _)
RECURSIVE flat_folder_children(_, _, _)
\* prepare_flat_export of a channel or playlist: the for loop over the child
\* list l, r being child_dict and db_dict as they stand
flat_remote_children(l, r, flags) ==
    IF l = <<>> THEN r
    ELSE flat_remote_children(Tail(l),
             IF isVideo(Head(l))
             THEN [child_dict |-> export_video(r.child_dict, Head(l),
                                               flags.include_video_flag),
                   db_dict |-> r.db_dict]
             ELSE [child_dict |-> r.child_dict,
                   db_dict |-> prepare_flat_export(Head(l), r.db_dict, flags)],
             flags)

\* prepare_flat_export of a folder: the for loop over the child list l
flat_folder_children(l, db_dict, flags) ==
    IF l = <<>> THEN db_dict
    ELSE flat_folder_children(Tail(l),
             IF isVideo(Head(l)) THEN db_dict
             ELSE prepare_flat_export(Head(l), db_dict, flags),
             flags)

prepare_flat_export(self, db_dict, flags) ==
    IF export_ignored(self, flags)
    THEN db_dict
    ELSE IF isRemote(self)
    THEN flat_store(self,
             flat_remote_children(child_list[self],
                 [child_dict |-> <<>>, db_dict |-> db_dict], flags))
    ELSE flat_folder_children(child_list[self], db_dict, flags)

exportFrame == <<created, parent_obj, child_list, countVars, flagVars, keyVars,
                 nameVars, priv_flag, sorting, aliasVars>>

PrepareExport(self, flags) ==
    /\ self \in created \cap Containers
    /\ ret' = Call("prepare_export", self, flags,
                   prepare_export(self, flags), FALSE)
    /\ UNCHANGED <<exportFrame, exportVars>>

\* mainapp calls prepare_flat_export with the empty db_dict
PrepareFlatExport(self, flags) ==
    /\ self \in created \cap Containers
    /\ ret' = Call("prepare_flat_export", self, flags,
                   prepare_flat_export(self, <<>>, flags), FALSE)
    /\ UNCHANGED <<exportFrame, exportVars>>

\* Video.set_source and GenericRemoteContainer.set_source
SetSource(n, src) ==
    /\ n \in created \ Folders
    /\ source' = [source EXCEPT ![n] = src]
    /\ ret' = Call("set_source", n, src, None, FALSE)
    /\ UNCHANGED <<exportFrame, fixed_flag, hidden_flag>>

(***************************************************************************)
(* SpecExport: the exports of a constructed tree.  The root folder 1 holds *)
(* the folder 2 and the video 5; the folder 2 holds the channel 3 and the  *)
(* playlist 4; the channel holds the video 6, the playlist the video 7.    *)
(* Either folder was constructed with either fixed_flag.  The sources of   *)
(* the channel and of the videos 5 and 6 are set, the video 6 is added to  *)
(* its channel again, the playlist and the video 6 are deleted from their  *)
(* parents.                                                                *)
(***************************************************************************)
InitExport ==
    /\ created = Nodes
    /\ parent_obj = [n \in Nodes |-> IF n \in {2, 5} THEN 1
                                     ELSE IF n \in {3, 4} THEN 2
                                     ELSE IF n = 6 THEN 3
                                     ELSE IF n = 7 THEN 4 ELSE None]
    /\ child_list = [c \in Containers |-> IF c = 1 THEN <<2, 5>>
                                          ELSE IF c = 2 THEN <<3, 4>>
                                          ELSE IF c = 3 THEN <<6>>
                                          ELSE <<7>>]
    /\ vid_count = [c \in Containers |-> IF c = 2 THEN 0 ELSE 1]
    /\ bookmark_count = [c \in Containers |-> 0]
    /\ dl_count = [c \in Containers |-> 0]
    /\ fav_count = [c \in Containers |-> 0]
    /\ new_count = [c \in Containers |-> 0]
    /\ waiting_count = [c \in Containers |-> 0]
    /\ bookmark_flag = [v \in Videos |-> FALSE]
    /\ dl_flag = [v \in Videos |-> FALSE]
    /\ fav_flag = [v \in Videos |-> FALSE]
    /\ new_flag = [v \in Videos |-> FALSE]
    /\ waiting_flag = [v \in Videos |-> FALSE]
    /\ upload_time = [v \in Videos |-> None]
    /\ receive_time = [v \in Videos |-> None]
    /\ index = [v \in Videos |-> None]
    /\ name = [n \in Nodes |-> NameArg(n)]
    /\ nickname = [n \in Nodes |-> NameArg(n)]
    /\ priv_flag = [f \in Folders |-> FALSE]
    /\ source = [n \in Nodes \ Folders |-> NoName]
    /\ fixed_flag \in [Folders -> BOOLEAN]
    /\ hidden_flag = [f \in Folders |-> FALSE]
    /\ sorting = NoSort
    /\ master_dbid = [c \in Containers |-> c]
    /\ slave_dbid_list = [c \in Containers |-> <<>>]
    /\ media_reg_dict = Containers
    /\ ret = Call("init", None, None, None, FALSE)

ExportSourced == {3, 5, 6}
ExportAdded == {6}
ExportDeleted == {4, 6}

NextExport ==
    \/ \E n \in ExportSourced, src \in Urls \cup {NoName} : SetSource(n, src)
    \/ \E v \in ExportAdded : ReAddChild(v)
    \/ \E x \in ExportDeleted : DelFromParent(x)
    \/ \E c \in Containers, video \in BOOLEAN, channel \in BOOLEAN,
          playlist \in BOOLEAN :
           PrepareExport(c, ExportArgs(video, channel, playlist))
    \/ \E c \in Containers, video \in BOOLEAN, channel \in BOOLEAN,
          playlist \in BOOLEAN :
           PrepareFlatExport(c, ExportArgs(video, channel, playlist))

SpecExport == InitExport /\ [][NextExport]_vars

(***************************************************************************)
(* sort_children statement by statement, for the calls that change the     *)
(* child list while a sort is under way (the download threads of the       *)
(* application run next to the thread that sorts).  sorting.pc is the      *)
(* place of the call: "idle" (no call), "loop" (at the top of the while    *)
(* loop), "copied" (copy_list is the copy), "sorted" (copy_list is         *)
(* sorted), "stored" (GenericRemoteContainer: the loop is left, the sort   *)
(* in place is to come).                                                   *)
(***************************************************************************)
Sorting(pc, self, copy_list) ==
    [pc |-> pc, self |-> self, copy_list |-> copy_list]

\* the call returns or raises; no child list is changed by it
SortReturn(self, raised) ==
    /\ sorting' = NoSort
    /\ ret' = Call("sort_children", self, child_list[self], None, raised)

sortFrame == <<created, parent_obj, countVars, flagVars, keyVars, nameVars,
               priv_flag, exportVars, aliasVars>>

\* self.sort_children() is called
SortBegin(self) ==
    /\ sorting.pc = "idle"
    /\ self \in created \cap Containers
    /\ sorting' = Sorting("loop", self, <<>>)
    /\ UNCHANGED <<sortFrame, child_list, ret>>

\* copy_list = self.child_list.copy()
SortCopy ==
    /\ sorting.pc = "loop"
    /\ sorting' = Sorting("copied", sorting.self, child_list[sorting.self])
    /\ UNCHANGED <<sortFrame, child_list, ret>>

\* copy_list.sort(...), r being its outcome
SortCopySorted(r) ==
    IF r.ok THEN /\ sorting' = Sorting("sorted", sorting.self, r.list)
                 /\ UNCHANGED ret
    ELSE SortReturn(sorting.self, TRUE)

SortCopyList ==
    /\ sorting.pc = "copied"
    /\ SortCopySorted(list_sort(sorting.self, sorting.copy_list))
    /\ UNCHANGED <<sortFrame, child_list>>

\* if len(copy_list) == len(self.child_list): self.child_list = copy_list,
\* break; Folder.sort_children returns then
SortStore ==
    /\ sorting.pc = "sorted"
    /\ IF Len(sorting.copy_list) = Len(child_list[sorting.self])
       THEN /\ child_list' = [child_list EXCEPT
                                  ![sorting.self] = sorting.copy_list]
            /\ IF sorting.self \in Folders
               THEN /\ sorting' = NoSort
                    /\ ret' = Call("sort_children", sorting.self,
                                   child_list[sorting.self], None, FALSE)
               ELSE /\ sorting' = Sorting("stored", sorting.self, <<>>)
                    /\ UNCHANGED ret
       ELSE /\ sorting' = Sorting("loop", sorting.self, <<>>)
            /\ UNCHANGED <<child_list, ret>>
    /\ UNCHANGED sortFrame

\* GenericRemoteContainer.sort_children: self.child_list.sort(...), r being
\* its outcome
SortInPlaceSorted(r) ==
    /\ child_list' = [child_list EXCEPT ![sorting.self] = r.list]
    /\ sorting' = NoSort
    /\ ret' = Call("sort_children", sorting.self, child_list[sorting.self],
                   None, ~r.ok)

SortInPlace ==
    /\ sorting.pc = "stored"
    /\ SortInPlaceSorted(list_sort(sorting.self, child_list[sorting.self]))
    /\ UNCHANGED sortFrame

(***************************************************************************)
(* SpecReentrant: a sort of the root folder or of the channel, and the     *)
(* calls of the other threads.  The folder 1 holds the channel 3 and the   *)
(* playlist 4, the channel holds the videos 5 and 6; the folder 2, of the  *)
(* folder 1, and the video 7, of the channel, were deleted from their      *)
(* parents.  The upload time of the video 5 is 1, that of the others 2; no *)
(* video has a receive time, so that a sort of the videos 6 and 7 raises.  *)
(***************************************************************************)
InitReentrant ==
    /\ created = Nodes
    /\ parent_obj = [n \in Nodes |-> IF n \in {2, 3, 4} THEN 1
                                     ELSE IF n \in Videos THEN 3 ELSE None]
    /\ child_list = [c \in Containers |-> IF c = 1 THEN <<3, 4>>
                                          ELSE IF c = 3 THEN <<5, 6>>
                                          ELSE <<>>]
    /\ vid_count = [c \in Containers |-> IF c = 3 THEN 2 ELSE 0]
    /\ bookmark_count = [c \in Containers |-> 0]
    /\ dl_count = [c \in Containers |-> 0]
    /\ fav_count = [c \in Containers |-> 0]
    /\ new_count = [c \in Containers |-> 0]
    /\ waiting_count = [c \in Containers |-> 0]
    /\ bookmark_flag = [v \in Videos |-> FALSE]
    /\ dl_flag = [v \in Videos |-> FALSE]
    /\ fav_flag = [v \in Videos |-> FALSE]
    /\ new_flag = [v \in Videos |-> FALSE]
    /\ waiting_flag = [v \in Videos |-> FALSE]
    /\ upload_time = [v \in Videos |-> IF v = 5 THEN 1 ELSE 2]
    /\ receive_time = [v \in Videos |-> None]
    /\ index = [v \in Videos |-> None]
    /\ name = [n \in Nodes |-> NameArg(n)]
    /\ nickname = [n \in Nodes |-> NameArg(n)]
    /\ priv_flag = [f \in Folders |-> FALSE]
    /\ source = [n \in Nodes \ Folders |-> NoName]
    /\ fixed_flag = [f \in Folders |-> FALSE]
    /\ hidden_flag = [f \in Folders |-> FALSE]
    /\ sorting = NoSort
    /\ master_dbid = [c \in Containers |-> c]
    /\ slave_dbid_list = [c \in Containers |-> <<>>]
    /\ media_reg_dict = Containers
    /\ ret = Call("init", None, None, None, FALSE)

\* add_child of the parent of a node, called with the node
AddToParent(x, no_sort_flag) ==
    /\ parent_obj[x] # None
    /\ AddChild(parent_obj[x], x, no_sort_flag)

\* the containers that are sorted, and the children that the other threads
\* add and delete
Sorted == {1, 3}
Moved == {2, 4, 5, 7}

NextReentrant ==
    \/ \E c \in Sorted : SortBegin(c)
    \/ SortCopy
    \/ SortCopyList
    \/ SortStore
    \/ SortInPlace
    \/ \E x \in Moved, no_sort_flag \in BOOLEAN : AddToParent(x, no_sort_flag)
    \/ \E x \in Moved : DelFromParent(x)

SpecReentrant == InitReentrant /\ [][NextReentrant]_vars

(***************************************************************************)
(* find_matching_video.  A name is the sequence of its characters here,    *)
(* each a string of length one, so that the regular expressions and the    *)
(* slices do to it what they do in Python.  \w is a letter or "_",         *)
(* \W any other character, \s the space.                                   *)
(***************************************************************************)
Letters == {"F", "o", "B", "a", "r", "z"}
WordChars == Letters \cup {"_"}
MatchChars == WordChars \cup {" ", ":", "!"}

\* re.sub(class+, ' ', s): s after the run of class characters it begins with
RECURSIVE after_run(_, _)
after_run(s, class) ==
    IF s # <<>> /\ Head(s) \in class THEN after_run(Tail(s), class) ELSE s

\* re.sub(class+, ' ', s)
RECURSIVE re_sub_runs(_, _)
re_sub_runs(s, class) ==
    IF s = <<>> THEN <<>>
    ELSE IF Head(s) \in class
    THEN <<" ">> \o re_sub_runs(after_run(Tail(s), class), class)
    ELSE <<Head(s)>> \o re_sub_runs(Tail(s), class)

\* re.sub(r'\s+$', '', s)
RECURSIVE strip_trailing(_)
strip_trailing(s) ==
    IF s # <<>> /\ s[Len(s)] = " " THEN strip_trailing(SubSeq(s, 1, Len(s) - 1))
    ELSE s

\* the four re.sub calls without the second, that of [\_\s]+
normalize_without_underscores(nm) ==
    strip_trailing(after_run(re_sub_runs(nm, MatchChars \ WordChars), {" "}))

\* the four re.sub calls that find_matching_video applies to a name
normalize_name(nm) ==
    strip_trailing(after_run(
        re_sub_runs(re_sub_runs(nm, MatchChars \ WordChars), {"_", " "}),
        {" "}))

\* s[:n]
slice_to(s, n) ==
    IF n >= 0 THEN SubSeq(s, 1, IF n < Len(s) THEN n ELSE Len(s))
    ELSE SubSeq(s, 1, IF Len(s) + n > 0 THEN Len(s) + n ELSE 0)

\* the test of the if statement; ignore is match_ignore_chars * -1
name_matches(app_obj, child_name, test_name) ==
    \/ /\ app_obj.match_method = "exact_match"
       /\ child_name = test_name
    \/ /\ app_obj.match_method = "match_first"
       /\ slice_to(child_name, app_obj.match_first_chars)
              = slice_to(test_name, app_obj.match_first_chars)
    \/ /\ app_obj.match_method = "ignore_last"
       /\ slice_to(child_name, app_obj.match_ignore_chars * (-1))
              = slice_to(test_name, app_obj.match_ignore_chars * (-1))

\* the for loop over the child list l
RECURSIVE find_in_children(_, _, _)
find_in_children(l, app_obj, test_name) ==
    IF l = <<>> THEN None
    ELSE IF /\ isVideo(Head(l))
            /\ name_matches(app_obj, normalize_name(name[Head(l)]), test_name)
    THEN Head(l)
    ELSE find_in_children(Tail(l), app_obj, test_name)

find_matching_video(self, app_obj, nm) ==
    find_in_children(child_list[self], app_obj, normalize_name(nm))

FindMatchingVideo(self, app_obj, nm) ==
    /\ self \in created \cap Containers
    /\ ret' = Call("find_matching_video", self,
                   [app_obj |-> app_obj, name |-> nm],
                   find_matching_video(self, app_obj, nm), FALSE)
    /\ UNCHANGED queryFrame

(***************************************************************************)
(* SpecMatch: find_matching_video on the root folder 1, which holds the    *)
(* folder 2 and the video 5; the video 6 was deleted from it; the folder 2 *)
(* holds the video 7, whose name is "Foo Bar".  The videos 5 and 6 have    *)
(* any of the names below.  The children of the folder 1 are deleted and   *)
(* added again, in any order.  The counts of the policies are positive.    *)
(***************************************************************************)
FooBar == <<"F", "o", "o", "B", "a", "r">>
Foo_Bar == <<"F", "o", "o", " ", "B", "a", "r">>
Foo_Bar_Baz == Foo_Bar \o <<" ", "B", "a", "z">>
FooColonBar == <<"F", "o", "o", ":", " ", "B", "a", "r", "!">>
FooUnderBar == <<"_", "F", "o", "o", "_", "_", "B", "a", "r">>
Foo_Baz == <<"F", "o", "o", " ", "B", "a", "z">>

VideoNames == {FooBar, Foo_Bar, Foo_Bar_Baz, FooUnderBar, Foo_Baz}
SearchedNames == {FooColonBar, Foo_Bar, FooUnderBar, Foo_Baz}
MatchCounts == {1, 4}
AppObjs ==
    [match_method : {"exact_match", "match_first", "ignore_last"},
     match_first_chars : MatchCounts, match_ignore_chars : MatchCounts]

InitMatch ==
    /\ created = Nodes \ {3, 4}
    /\ parent_obj = [n \in Nodes |-> IF n \in {2, 5, 6} THEN 1
                                     ELSE IF n = 7 THEN 2 ELSE None]
    /\ child_list = [c \in Containers |-> IF c = 1 THEN <<2, 5>>
                                          ELSE IF c = 2 THEN <<7>> ELSE <<>>]
    /\ vid_count = [c \in Containers |-> IF c \in {1, 2} THEN 1 ELSE 0]
    /\ bookmark_count = [c \in Containers |-> 0]
    /\ dl_count = [c \in Containers |-> 0]
    /\ fav_count = [c \in Containers |-> 0]
    /\ new_count = [c \in Containers |-> 0]
    /\ waiting_count = [c \in Containers |-> 0]
    /\ bookmark_flag = [v \in Videos |-> FALSE]
    /\ dl_flag = [v \in Videos |-> FALSE]
    /\ fav_flag = [v \in Videos |-> FALSE]
    /\ new_flag = [v \in Videos |-> FALSE]
    /\ waiting_flag = [v \in Videos |-> FALSE]
    /\ upload_time = [v \in Videos |-> None]
    /\ receive_time = [v \in Videos |-> None]
    /\ index = [v \in Videos |-> None]
    /\ \E nm \in [{5, 6} -> VideoNames] :
           /\ name = [n \in Nodes |-> IF n \in {5, 6} THEN nm[n]
                                      ELSE IF n = 7 THEN Foo_Bar
                                      ELSE NameArg(n)]
           /\ nickname = name
    /\ priv_flag = [f \in Folders |-> FALSE]
    /\ source = [n \in Nodes \ Folders |-> NoName]
    /\ fixed_flag = [f \in Folders |-> FALSE]
    /\ hidden_flag = [f \in Folders |-> FALSE]
    /\ sorting = NoSort
    /\ master_dbid = [c \in Containers |-> c]
    /\ slave_dbid_list = [c \in Containers |-> <<>>]
    /\ media_reg_dict = Containers \ {3, 4}
    /\ ret = Call("init", None, None, None, FALSE)

MatchMoved == {2, 5, 6}

NextMatch ==
    \/ \E x \in MatchMoved : DelFromParent(x)
    \/ \E x \in MatchMoved : AddToParent(x, TRUE)
    \/ \E app_obj \in AppObjs, nm \in SearchedNames :
           FindMatchingVideo(1, app_obj, nm)

SpecMatch == InitMatch /\ [][NextMatch]_vars

(***************************************************************************)
(* Download destinations: master_dbid, slave_dbid_list and the directory   *)
(* of a container.  app_obj.media_reg_dict[dbid] is the object with that   *)
(* dbid when dbid is a key of the registry, and raises KeyError otherwise. *)
(***************************************************************************)
\* add_slave_dbid: appends dbid unless the list has it
add_slave_dbid(slave_list, dbid) ==
    IF InList(slave_list, dbid) THEN slave_list ELSE Append(slave_list, dbid)

\* del_slave_dbid: the list without every entry equal to dbid
del_slave_dbid(slave_list, dbid) ==
    SelectSeq(slave_list, LAMBDA slave_dbid : slave_dbid # dbid)

\* set_master_dbid as it would be if it left the old master's list alone
set_master_dbid_keep_old(self, dbid) ==
    IF dbid = master_dbid[self]
    THEN [master_dbid |-> master_dbid, slave_dbid_list |-> slave_dbid_list,
          raised |-> FALSE]
    ELSE [master_dbid |-> [master_dbid EXCEPT ![self] = dbid],
          slave_dbid_list |->
              IF dbid # self /\ dbid \in media_reg_dict
              THEN [slave_dbid_list EXCEPT ![dbid] = add_slave_dbid(@, self)]
              ELSE slave_dbid_list,
          raised |-> dbid # self /\ dbid \notin media_reg_dict]

\* set_master_dbid as it would be if it left the new master's list alone
set_master_dbid_no_new_slave(self, dbid) ==
    IF dbid = master_dbid[self]
    THEN [master_dbid |-> master_dbid, slave_dbid_list |-> slave_dbid_list,
          raised |-> FALSE]
    ELSE [master_dbid |-> [master_dbid EXCEPT ![self] = dbid],
          slave_dbid_list |->
              IF master_dbid[self] # self
                 /\ master_dbid[self] \in media_reg_dict
              THEN [slave_dbid_list EXCEPT
                       ![master_dbid[self]] = del_slave_dbid(@, self)]
              ELSE slave_dbid_list,
          raised |-> dbid # self /\ dbid \notin media_reg_dict]

\* set_master_dbid: the master_dbid and slave_dbid_list functions it leaves,
\* and whether it raised KeyError (after the assignment of self.master_dbid)
set_master_dbid(self, dbid) ==
    IF dbid = master_dbid[self]
    THEN [master_dbid |-> master_dbid, slave_dbid_list |-> slave_dbid_list,
          raised |-> FALSE]
    ELSE LET old == master_dbid[self]
             slaves1 == IF old # self /\ old \in media_reg_dict
                        THEN [slave_dbid_list EXCEPT
                                 ![old] = del_slave_dbid(@, self)]
                        ELSE slave_dbid_list
             master1 == [master_dbid EXCEPT ![self] = dbid]
         IN  IF dbid # self
             THEN IF dbid \in media_reg_dict
                  THEN [master_dbid |-> master1,
                        slave_dbid_list |->
                            [slaves1 EXCEPT ![dbid] = add_slave_dbid(@, self)],
                        raised |-> FALSE]
                  ELSE [master_dbid |-> master1, slave_dbid_list |-> slaves1,
                        raised |-> TRUE]
             ELSE [master_dbid |-> master1, slave_dbid_list |-> slaves1,
                   raised |-> FALSE]

\* the loop of get_default_dir: the names of the ancestors go in front
RECURSIVE dir_list_loop(_, _)
dir_list_loop(obj, dir_list) ==
    IF parent_obj[obj] # None
    THEN dir_list_loop(parent_obj[obj], <<name[parent_obj[obj]]>> \o dir_list)
    ELSE dir_list

\* get_default_dir: the path as the sequence of its parts
get_default_dir(self, new_name) ==
    <<downloads_dir>>
        \o dir_list_loop(self, IF new_name # NoName THEN <<new_name>>
                               ELSE <<name[self]>>)

\* get_actual_dir as it would be if it followed the master's own master
get_actual_dir_two_levels(self, new_name) ==
    LET m == master_dbid[self]
    IN  IF m \notin media_reg_dict THEN [val |-> <<>>, raised |-> TRUE]
        ELSE IF master_dbid[m] \notin media_reg_dict
        THEN [val |-> <<>>, raised |-> TRUE]
        ELSE [val |-> get_default_dir(master_dbid[m], new_name),
              raised |-> FALSE]

\* get_actual_dir: [val, raised], raised for the KeyError of the lookup
get_actual_dir(self, new_name) ==
    IF master_dbid[self] # self
    THEN IF master_dbid[self] \in media_reg_dict
         THEN [val |-> get_default_dir(master_dbid[self], new_name),
               raised |-> FALSE]
         ELSE [val |-> <<>>, raised |-> TRUE]
    ELSE [val |-> get_default_dir(self, new_name), raised |-> FALSE]

aliasFrame == <<created, parent_obj, child_list, countVars, flagVars, keyVars,
                nameVars, priv_flag, exportVars, sorting, media_reg_dict>>

\* the state and the call record that the result r of set_master_dbid gives
StoreMasterDbid(self, dbid, r) ==
    /\ master_dbid' = r.master_dbid
    /\ slave_dbid_list' = r.slave_dbid_list
    /\ ret' = Call("set_master_dbid", self, dbid, None, r.raised)

SetMasterDbid(self, dbid) ==
    /\ self \in created \cap Containers
    /\ StoreMasterDbid(self, dbid, set_master_dbid(self, dbid))
    /\ UNCHANGED aliasFrame

\* the call record that the result r of get_actual_dir gives
StoreActualDir(self, new_name, r) ==
    ret' = Call("get_actual_dir", self, new_name, r.val, r.raised)

GetActualDir(self, new_name) ==
    /\ self \in created \cap Containers
    /\ StoreActualDir(self, new_name, get_actual_dir(self, new_name))
    /\ UNCHANGED <<aliasFrame, master_dbid, slave_dbid_list>>

(***************************************************************************)
(* SpecAlias: the download destinations of four constructed containers,    *)
(* folder 1 holding folder 2 and playlist 4, folder 2 holding channel 3,   *)
(* all of them in the registry.  SpecAliasMiss is the same with dbids that *)
(* are no key of the registry among the arguments.                         *)
(***************************************************************************)
InitAlias ==
    /\ created = Containers
    /\ parent_obj = [n \in Nodes |-> IF n \in {2, 4} THEN 1
                                     ELSE IF n = 3 THEN 2 ELSE None]
    /\ child_list = [c \in Containers |-> IF c = 1 THEN <<2, 4>>
                                          ELSE IF c = 2 THEN <<3>> ELSE <<>>]
    /\ vid_count = [c \in Containers |-> 0]
    /\ bookmark_count = [c \in Containers |-> 0]
    /\ dl_count = [c \in Containers |-> 0]
    /\ fav_count = [c \in Containers |-> 0]
    /\ new_count = [c \in Containers |-> 0]
    /\ waiting_count = [c \in Containers |-> 0]
    /\ bookmark_flag = [v \in Videos |-> FALSE]
    /\ dl_flag = [v \in Videos |-> FALSE]
    /\ fav_flag = [v \in Videos |-> FALSE]
    /\ new_flag = [v \in Videos |-> FALSE]
    /\ waiting_flag = [v \in Videos |-> FALSE]
    /\ upload_time = [v \in Videos |-> None]
    /\ receive_time = [v \in Videos |-> None]
    /\ index = [v \in Videos |-> None]
    /\ name = [n \in Nodes |-> NameArg(n)]
    /\ nickname = [n \in Nodes |-> NameArg(n)]
    /\ priv_flag = [f \in Folders |-> FALSE]
    /\ source = [n \in Nodes \ Folders |-> NoName]
    /\ fixed_flag = [f \in Folders |-> FALSE]
    /\ hidden_flag = [f \in Folders |-> FALSE]
    /\ sorting = NoSort
    /\ master_dbid = [c \in Containers |-> c]
    /\ slave_dbid_list = [c \in Containers |-> <<>>]
    /\ media_reg_dict = Containers
    /\ ret = Call("init", None, None, None, FALSE)

NextAlias ==
    \/ \E c \in Containers, dbid \in Containers : SetMasterDbid(c, dbid)
    \/ \E c \in Containers, new_name \in NewNames : GetActualDir(c, new_name)

SpecAlias == InitAlias /\ [][NextAlias]_vars

NextAliasMiss ==
    \/ \E c \in Containers, dbid \in Containers \cup UnknownDbids :
           SetMasterDbid(c, dbid)
    \/ \E c \in Containers, new_name \in NewNames : GetActualDir(c, new_name)

SpecAliasMiss == InitAlias /\ [][NextAliasMiss]_vars

(***************************************************************************)
(* The claims about the child lists and the counters.                      *)
(***************************************************************************)
\* the place of the first occurrence of x in l (x occurs in l)
FirstAt(l, x) == CHOOSE i \in 1..Len(l) : l[i] = x /\ \A j \in 1..(i - 1) : l[j] # x

Without(l, i) == SubSeq(l, 1, i - 1) \o SubSeq(l, i + 1, Len(l))

\* C1: a container whose six counters equal the numbers of its direct video
\* children with the matching flag (vid_count: of all its video children)
\* before an add_child or a del_child of a video still has them equal after
\* the call, whatever flags the video carries.
C1_CountersMatchChildren ==
    [][\A c \in Containers :
          (/\ ret'.op \in {"add_child", "del_child"}
           /\ ret'.self = c
           /\ isVideo(ret'.arg)
           /\ DriftAt(c) = 0)
          => DriftAt(c)' = 0]_vars

\* sort_children would return and leave the child list of c as it is
InOrder(c) ==
    sort_children(c, child_list[c]) = [list |-> child_list[c], ok |-> TRUE]

C3_ReAddIsNoOp ==
    [][\A c \in Channels \cup Playlists :
          (/\ ret'.op = "add_child"
           /\ ret'.self = c
           /\ InList(child_list[c], ret'.arg))
          => /\ child_list'[c] = child_list[c]
             /\ vid_count'[c] = vid_count[c]]_vars

\* C4: del_child(child) returns False and changes nothing when child is not
\* in child_list; otherwise it returns True, takes the (first) entry of child
\* out of child_list, lowers vid_count and the counters whose flag the
\* removed video carries by one each (none when the child is a container),
\* and changes nothing else: no other container, no parent_obj, no field of
\* the child.
C4_DelChildEffect ==
    [][\A c \in Containers, x \in Nodes :
          (ret'.op = "del_child" /\ ret'.self = c /\ ret'.arg = x)
          => /\ IF ~InList(child_list[c], x)
                THEN /\ ret'.val = FALSE
                     /\ child_list' = child_list
                     /\ countVars' = countVars
                ELSE /\ ret'.val = TRUE
                     /\ child_list'[c] =
                            Without(child_list[c], FirstAt(child_list[c], x))
                     /\ vid_count'[c] = vid_count[c] - OneIf(isVideo(x))
                     /\ bookmark_count'[c] = bookmark_count[c]
                            - OneIf(isVideo(x) /\ bookmark_flag[x])
                     /\ dl_count'[c] = dl_count[c]
                            - OneIf(isVideo(x) /\ dl_flag[x])
                     /\ fav_count'[c] = fav_count[c]
                            - OneIf(isVideo(x) /\ fav_flag[x])
                     /\ new_count'[c] = new_count[c]
                            - OneIf(isVideo(x) /\ new_flag[x])
                     /\ waiting_count'[c] = waiting_count[c]
                            - OneIf(isVideo(x) /\ waiting_flag[x])
                     /\ \A d \in Containers \ {c} :
                            /\ child_list'[d] = child_list[d]
                            /\ vid_count'[d] = vid_count[d]
                            /\ bookmark_count'[d] = bookmark_count[d]
                            /\ dl_count'[d] = dl_count[d]
                            /\ fav_count'[d] = fav_count[d]
                            /\ new_count'[d] = new_count[d]
                            /\ waiting_count'[d] = waiting_count[d]
             /\ UNCHANGED <<created, parent_obj, flagVars, keyVars, nameVars,
                            priv_flag, aliasVars>>]_vars

\* C4's case: del_child has removed a video that carries some flags and not
\* others, from a container that still lists another child
C4_Witness ==
    /\ ret.op = "del_child" /\ ret.val = TRUE
    /\ isVideo(ret.arg)
    /\ bookmark_flag[ret.arg] /\ dl_flag[ret.arg] /\ ~fav_flag[ret.arg]
    /\ child_list[ret.self] # <<>>
    /\ bookmark_count[ret.self] = 0

(***************************************************************************)
(* The claims about the download destinations.                             *)
(***************************************************************************)
\* C5: with every container in the registry, after any set_master_dbid
\* calls, for distinct containers A and B: A's dbid is in B.slave_dbid_list
\* exactly when A.master_dbid is B's dbid; and a call with the current
\* master_dbid changes nothing.
C5_SlavesMirrorMasters ==
    /\ [](\A a \in Containers, b \in Containers :
              a # b => (InList(slave_dbid_list[b], a) <=> master_dbid[a] = b))
    /\ [][\A c \in Containers :
             (/\ ret'.op = "set_master_dbid" /\ ret'.self = c
              /\ ret'.arg = master_dbid[c])
             => /\ master_dbid' = master_dbid
                /\ slave_dbid_list' = slave_dbid_list]_vars

\* C5's case: a container has been moved from one master to another
C5_Witness ==
    /\ ret.op = "set_master_dbid" /\ ret.self = 3 /\ ret.arg = 4
    /\ master_dbid[3] = 4 /\ master_dbid[2] = 1
    /\ slave_dbid_list[4] = <<3>> /\ slave_dbid_list[1] = <<2>>
    /\ master_dbid[4] = 4

\* C6: no set_master_dbid and no get_actual_dir call ends with the KeyError
\* of a registry lookup that misses.
C6_NoLookupError ==
    ret.op \in {"set_master_dbid", "get_actual_dir"} => ~ret.raised

\* C7: get_actual_dir(N) is get_default_dir(M) for the registry entry M of
\* N.master_dbid when N.master_dbid is not N's dbid, whatever M's own
\* master_dbid is, and get_default_dir(N) otherwise.
C7_ActualDirOneLevel ==
    \A n \in Containers :
        (ret.op = "get_actual_dir" /\ ret.self = n)
        => /\ ~ret.raised
           /\ ret.val = IF master_dbid[n] # n
                        THEN get_default_dir(master_dbid[n], ret.arg)
                        ELSE get_default_dir(n, ret.arg)

\* C7's case: the directory of channel 3, whose master 4 has folder 2 as its
\* own master: the directory is that of 4, not that of 2
C7_Witness ==
    /\ ret.op = "get_actual_dir" /\ ret.self = 3 /\ ret.arg = NoName
    /\ master_dbid[3] = 4 /\ master_dbid[4] = 2
    /\ ret.val = <<downloads_dir, "a", "a">>

(***************************************************************************)
(* The claims about the order sort_children produces.                      *)
(***************************************************************************)
\* the children of l have upload times (indexes) that differ from one another
Distinct(l, field) ==
    \A i, j \in 1..Len(l) : field[l[i]] = field[l[j]] => i = j

\* C8: in a playlist whose children have distinct non-null index values,
\* sort_children returns and leaves the child list strictly increasing by
\* index, whatever the upload and receive times and the order before.
C8_PlaylistByIndex ==
    \A c \in Playlists :
        (/\ ret.op = "sort_children" /\ ret.self = c
         /\ Distinct(child_list[c], index)
         /\ \A i \in 1..Len(child_list[c]) : index[child_list[c][i]] # None)
        => /\ ~ret.raised
           /\ \A i \in 1..(Len(child_list[c]) - 1) :
                  index[child_list[c][i]] < index[child_list[c][i + 1]]

\* C8's case: the sort has moved the last child of a playlist to the front,
\* against the upload times
C8_Witness ==
    /\ ret.op = "sort_children" /\ ret.self = 4
    /\ ret.arg = <<5, 6, 7>> /\ child_list[4] = <<7, 5, 6>>
    /\ index[7] = 1 /\ index[5] = 2 /\ index[6] = 3
    /\ upload_time[7] = 1 /\ upload_time[5] = None /\ upload_time[6] = 3

Stratum(n) == IF n \in Folders THEN 1 ELSE IF isRemote(n) THEN 2 ELSE 3

\* C10: after a folder's sort_children, which returns, every folder child
\* stands before every channel or playlist child, and every channel or
\* playlist child before every video child, whatever the names, the times
\* and the order before.
C10_FolderStrata ==
    \A c \in Folders :
        (ret.op = "sort_children" /\ ret.self = c)
        => /\ ~ret.raised
           /\ \A i, j \in 1..Len(child_list[c]) :
                  i < j => Stratum(child_list[c][i]) <= Stratum(child_list[c][j])

\* C10's case: a folder list that began with the videos, one of them without
\* upload time, and ended with them
C10_Witness ==
    /\ ret.op = "sort_children" /\ ret.self = 1
    /\ ret.arg = <<5, 6, 4, 3, 2>>
    /\ child_list[1][1] = 2 /\ isVideo(child_list[1][5])
    /\ isVideo(child_list[1][4])
    /\ upload_time[5] = None /\ upload_time[6] = 2 /\ name[4] = "b"

\* C11: sort_children is idempotent for every kind of container: called on
\* the child list that the previous call, a sort_children of the same
\* container that returned, has left, it returns and leaves the order as it
\* is.
C11_SortIdempotent ==
    [][\A c \in Containers :
          (/\ ret.op = "sort_children" /\ ret.self = c /\ ~ret.raised
           /\ ret'.op = "sort_children" /\ ret'.self = c)
          => /\ ~ret'.raised
             /\ child_list'[c] = child_list[c]]_vars

\* C11's case: the channel's list, which a sort has reordered, has been
\* sorted again; one of the videos has no upload time
C11_Witness ==
    /\ ret.op = "sort_children" /\ ret.self = 3 /\ ~ret.raised
    /\ ret.arg = <<5, 7, 6>> /\ child_list[3] = <<5, 7, 6>>
    /\ upload_time[5] = None

(***************************************************************************)
(* The claims about the constructors and the parents.                      *)
(***************************************************************************)
\* the number of entries of the list l that are x
Occurrences(l, x) == Cardinality({i \in 1..Len(l) : l[i] = x})

\* the call records of the constructors: media.Video, and the class of the
\* container for media.Channel, media.Playlist and media.Folder
Constructors == {"Video"} \cup {get_type(c) : c \in Containers}

\* C12: when a Video, Channel, Playlist or Folder has been constructed with
\* a parent P, of whatever kind of container, the new node is in P.child_list
\* exactly once and its parent_obj is P; the construction of a container
\* with no parent changes no other node.
C12_ConstructedInParent ==
    [][\A n \in Nodes :
          (ret'.op \in Constructors /\ ret'.arg = n /\ n \notin created)
          => IF ret'.self # None
             THEN /\ Occurrences(child_list'[ret'.self], n) = 1
                  /\ parent_obj'[n] = ret'.self
             ELSE /\ parent_obj'[n] = None
                  /\ UNCHANGED <<child_list, countVars, flagVars, keyVars,
                                 nameVars, aliasVars>>
                  /\ \A m \in Nodes \ {n} : parent_obj'[m] = parent_obj[m]
                  /\ \A f \in Folders \ {n} : priv_flag'[f] = priv_flag[f]]_vars

\* C12, amended: a constructed Video is in the child_list of its parent
\* exactly once, whatever container the parent is, and so is a constructed
\* Channel, Playlist or Folder whose parent is a Folder; a container that is
\* constructed with a Channel or Playlist as its parent is not put into the
\* parent's child_list, which stays as it is.  In each case parent_obj is
\* the parent, and the construction of a container with no parent changes
\* no other node.
C12_ConstructedInFolder ==
    [][\A n \in Nodes :
          (ret'.op \in Constructors /\ ret'.arg = n /\ n \notin created)
          => IF ret'.self = None
             THEN /\ parent_obj'[n] = None
                  /\ UNCHANGED <<child_list, countVars, flagVars, keyVars,
                                 nameVars, aliasVars>>
                  /\ \A m \in Nodes \ {n} : parent_obj'[m] = parent_obj[m]
                  /\ \A f \in Folders \ {n} : priv_flag'[f] = priv_flag[f]
             ELSE /\ parent_obj'[n] = ret'.self
                  /\ IF isVideo(n) \/ ret'.self \in Folders
                     THEN Occurrences(child_list'[ret'.self], n) = 1
                     ELSE /\ Occurrences(child_list'[ret'.self], n) = 0
                          /\ child_list' = child_list]_vars

\* C12's case: the folder 2 has been constructed in the root folder, which
\* held the channel 3, and stands before the channel
C12_Witness ==
    /\ ret.op = "folder" /\ ret.arg = 2 /\ ret.self = 1
    /\ child_list[1] = <<2, 3>> /\ parent_obj[2] = 1

\* C13: a Video's parent_obj is set at construction, is never None and is
\* never changed afterwards, whatever is called: set_parent_obj and the
\* parent's del_child too.
C13_VideoParentFixed ==
    [][\A v \in Videos :
          /\ v \in created' => parent_obj'[v] # None
          /\ v \in created => parent_obj'[v] = parent_obj[v]]_vars

\* C14: set_name(new) of a Video, Channel, Playlist or Folder makes name
\* new, makes nickname new when nickname was the name before the call, and
\* leaves nickname as it was otherwise.
C14_SetNameNickname ==
    [][\A n \in Nodes :
          (ret'.op = "set_name" /\ ret'.self = n)
          => nickname'[n] = IF nickname[n] = name[n] THEN name'[n]
                            ELSE nickname[n]]_vars

(***************************************************************************)
(* The claims about the walks over the tree.                               *)
(***************************************************************************)
\* the nodes below the container c: the entries of its child list and what
\* is below them
RECURSIVE Below(_)
Below(c) ==
    UNION {{child_list[c][i]}
               \cup (IF isVideo(child_list[c][i]) THEN {}
                     ELSE Below(child_list[c][i])) :
           i \in 1..Len(child_list[c])}

\* the videos at and below the node n, depth first in the order of the child
\* lists: a video stands where its entry stands, the videos of a container
\* where the container's entry stands
RECURSIVE DepthFirst(_)
RECURSIVE DepthFirstOf(_)
DepthFirstOf(l) ==
    IF l = <<>> THEN <<>> ELSE DepthFirst(Head(l)) \o DepthFirstOf(Tail(l))

DepthFirst(n) == IF isVideo(n) THEN <<n>> ELSE DepthFirstOf(child_list[n])

\* C15: compile_all_videos(root, []) returns every Video below root exactly
\* once and no container, depth first in the order of the child lists.
C15_CompileAllVideos ==
    ret.op = "compile_all_videos"
    => /\ ret.val = DepthFirst(ret.self)
       /\ \A i \in 1..Len(ret.val) : isVideo(ret.val[i])
       /\ \A v \in Videos :
              Occurrences(ret.val, v) = IF v \in Below(ret.self) THEN 1 ELSE 0

\* the number of nodes on the parent chain from n to its root
RECURSIVE ChainLength(_)
ChainLength(n) ==
    IF parent_obj[n] = None THEN 1 ELSE 1 + ChainLength(parent_obj[n])

\* C18: get_depth returns 1 for a container with no parent and 1 plus the
\* depth of the parent otherwise, the number of nodes on the parent chain up
\* to the root; it ends on every parent chain that has no cycle.
C18_GetDepth ==
    \A c \in Containers :
        (ret.op = "get_depth" /\ ret.self = c)
        => /\ ret.val = ChainLength(c)
           /\ ret.val = IF parent_obj[c] = None THEN 1
                        ELSE 1 + get_depth(parent_obj[c])

\* C18's case: the depth of the playlist, moved into the channel, which is
\* in the folder 2 of the root folder
C18_Witness ==
    /\ ret.op = "get_depth" /\ ret.self = 4 /\ ret.val = 4
    /\ parent_obj[4] = 3 /\ parent_obj[3] = 2 /\ parent_obj[2] = 1
    /\ parent_obj[1] = None

(***************************************************************************)
(* The claims about the exports.                                           *)
(***************************************************************************)
\* the number of documents with the dbid n in the document doc and in the
\* documents of its db_dict, and of theirs
RECURSIVE DocCount(_, _)
RECURSIVE DocCountIn(_, _, _)
DocCountIn(d, keys, n) ==
    IF keys = {} THEN 0
    ELSE LET k == CHOOSE x \in keys : TRUE
         IN  DocCount(d[k], n) + DocCountIn(d, keys \ {k}, n)

DocCount(doc, n) ==
    (IF doc.dbid = n THEN 1 ELSE 0) + DocCountIn(doc.db_dict, DOMAIN doc.db_dict, n)

\* the document doc, the documents of its db_dict, and theirs
RECURSIVE Docs(_)
Docs(doc) == {doc} \cup UNION {Docs(doc.db_dict[k]) : k \in DOMAIN doc.db_dict}

\* the filters: a fixed folder, a video without source, and the types whose
\* flag is false have no document
ExportAllowed(n, args) ==
    IF n \in Videos THEN args.include_video_flag /\ source[n] # NoName
    ELSE IF n \in Channels THEN args.include_channel_flag
    ELSE IF n \in Playlists THEN args.include_playlist_flag
    ELSE ~fixed_flag[n]

\* the nodes at and below n that pass the filters and stand below no node
\* that does not
RECURSIVE Exported(_, _)
Exported(n, args) ==
    IF ~ExportAllowed(n, args) THEN {}
    ELSE IF isVideo(n) THEN {n}
    ELSE {n} \cup UNION {Exported(child_list[n][i], args) :
                             i \in 1..Len(child_list[n])}

\* C16: prepare_export gives no document for a fixed Folder and what is
\* below it, for a Video without source, for any Video, Channel or Playlist
\* whose include flag is false (nor for the Videos of such a Channel or
\* Playlist); every other node of the subtree has exactly one document, in
\* the db_dict of its parent's document under its own dbid; the source of a
\* Folder document is None, that of a Channel or Playlist document its URL.
C16_PrepareExport ==
    ret.op = "prepare_export"
    => IF ExportAllowed(ret.self, ret.arg)
       THEN /\ ret.val # NoDocument
            /\ ret.val.dbid = ret.self
            /\ \A n \in Nodes :
                   DocCount(ret.val, n)
                       = IF n \in Exported(ret.self, ret.arg) THEN 1 ELSE 0
            /\ \A d \in Docs(ret.val) :
                   /\ d.type = get_type(d.dbid)
                   /\ d.source = IF d.dbid \in Folders THEN NoName
                                 ELSE source[d.dbid]
                   /\ \A k \in DOMAIN d.db_dict :
                          /\ d.db_dict[k].dbid = k
                          /\ InList(child_list[d.dbid], k)
       ELSE ret.val = NoDocument

\* C16's case: the export of the root folder with every flag true, the
\* channel and its video 6 having a source, the video 5 and the playlist's
\* video having none
C16_Witness ==
    /\ ret.op = "prepare_export" /\ ret.self = 1
    /\ ret.arg = ExportArgs(TRUE, TRUE, TRUE)
    /\ source[5] = NoName /\ source[6] = "u" /\ source[3] = "u"
    /\ ~fixed_flag[1] /\ ~fixed_flag[2]
    /\ ret.val.source = NoName
    /\ DOMAIN ret.val.db_dict = {2}
    /\ DOMAIN ret.val.db_dict[2].db_dict = {3, 4}
    /\ ret.val.db_dict[2].db_dict[3].source = "u"
    /\ DOMAIN ret.val.db_dict[2].db_dict[3].db_dict = {6}
    /\ DOMAIN ret.val.db_dict[2].db_dict[4].db_dict = {}

\* the exported channels and playlists that hold the node n
Enclosing(n, self, args) ==
    {c \in (Channels \cup Playlists) \cap Exported(self, args) :
         InList(child_list[c], n)}

\* C17: prepare_flat_export of a Folder that is not fixed gives no document
\* for a Folder and no document for what the filters of prepare_export
\* leave out; every Channel, Playlist and Video that prepare_export would
\* give a document has one under its own dbid, in the document of the
\* Channel or Playlist that holds it, or else in the db_dict that is
\* returned.
C17_PrepareFlatExport ==
    (/\ ret.op = "prepare_flat_export"
     /\ ret.self \in Folders
     /\ ~fixed_flag[ret.self])
    => /\ \A k \in DOMAIN ret.val :
              /\ k \in Exported(ret.self, ret.arg) \ Folders
              /\ ret.val[k].dbid = k
              /\ \A j \in DOMAIN ret.val[k].db_dict :
                     /\ j \in Exported(ret.self, ret.arg) \ Folders
                     /\ ret.val[k].db_dict[j].dbid = j
       /\ \A n \in Exported(ret.self, ret.arg) \ Folders :
              IF Enclosing(n, ret.self, ret.arg) # {}
              THEN \A c \in Enclosing(n, ret.self, ret.arg) :
                       /\ c \in DOMAIN ret.val
                       /\ n \in DOMAIN ret.val[c].db_dict
              ELSE n \in DOMAIN ret.val

(***************************************************************************)
(* The claims about a sort next to other calls.                            *)
(***************************************************************************)
SameChildren(l, m) == \A x \in Nodes : Occurrences(l, x) = Occurrences(m, x)

\* C19: when the child list is changed by another call while sort_children
\* is under way, sort_children does not store the sorted copy of the list
\* as it was before: each of its steps leaves in the child list the children
\* that the list held before the step, and when it returns the list is in
\* sorted order.
C19_SortKeepsMutation ==
    [][\A c \in Containers :
          (sorting.self = c /\ sorting' # sorting)
          => /\ SameChildren(child_list'[c], child_list[c])
             /\ (sorting'.pc = "idle" /\ ~ret'.raised)
                => list_sort(c, child_list'[c]).list = child_list'[c]]_vars

(***************************************************************************)
(* The claim about the comparators.                                        *)
(***************************************************************************)
\* C20: for every two children a and b of a container, do_sort of the
\* container returns -1, 0 or 1 for (a, b) and the opposite for (b, a), and
\* no call of sort_children raises.
C20_ComparatorsTotal ==
    /\ \A c \in created \cap Containers :
           \A i, j \in 1..Len(child_list[c]) :
               i # j
               => /\ do_sort(c, child_list[c][i], child_list[c][j])
                         \in {-1, 0, 1}
                  /\ do_sort(c, child_list[c][i], child_list[c][j])
                         = 0 - do_sort(c, child_list[c][j], child_list[c][i])
    /\ ret.op = "sort_children" => ~ret.raised

(***************************************************************************)
(* The claim about the receive times.                                      *)
(***************************************************************************)
\* C21: after sort_children, of two Video children whose upload times are
\* equal or missing, whose receive times are there and differ, and to which
\* the index rule of a Playlist does not apply, the one with the smaller
\* receive time stands first in a Channel, a Playlist and a Folder that is
\* not private, the one with the larger receive time in a private Folder.
C21_ReceiveTimeBreaksTies ==
    \A c \in Containers :
        (ret.op = "sort_children" /\ ret.self = c /\ ~ret.raised)
        => \A i, j \in 1..Len(child_list[c]) :
               (/\ i < j
                /\ isVideo(child_list[c][i]) /\ isVideo(child_list[c][j])
                /\ \/ upload_time[child_list[c][i]] = None
                   \/ upload_time[child_list[c][j]] = None
                   \/ upload_time[child_list[c][i]]
                          = upload_time[child_list[c][j]]
                /\ receive_time[child_list[c][i]] # None
                /\ receive_time[child_list[c][j]] # None
                /\ receive_time[child_list[c][i]]
                       # receive_time[child_list[c][j]]
                /\ ~(/\ c \in Playlists
                     /\ index[child_list[c][i]] # None
                     /\ index[child_list[c][j]] # None))
               => IF c \in Folders /\ priv_flag[c]
                  THEN receive_time[child_list[c][i]]
                           > receive_time[child_list[c][j]]
                  ELSE receive_time[child_list[c][i]]
                           < receive_time[child_list[c][j]]

(***************************************************************************)
(* The claims about the children of a channel or playlist, the aliases and *)
(* the receive time.                                                       *)
(***************************************************************************)
\* C22: every entry of the child_list of a Channel or Playlist is a Video,
\* and an add_child on a Channel or Playlist with a Channel, Playlist or
\* Folder leaves the child_list and the six counters as they were.
C22_RemoteChildrenAreVideos ==
    [][/\ \A c \in Channels \cup Playlists :
              \A i \in 1..Len(child_list'[c]) : isVideo(child_list'[c][i])
       /\ (/\ ret'.op = "add_child"
           /\ ret'.self \in Channels \cup Playlists
           /\ ~isVideo(ret'.arg))
          => UNCHANGED <<child_list, countVars>>]_vars

\* C22's case: add_child of the playlist, which holds the video 5, has been
\* called with the channel
C22_Witness ==
    /\ ret.op = "add_child" /\ ret.self = 4 /\ ret.arg = 3
    /\ child_list[4] = <<5>> /\ vid_count[4] = 1

\* no container is aliased to another and the alias target of another
OneLevel ==
    \A c \in Containers :
        ~(master_dbid[c] # c /\ slave_dbid_list[c] # <<>>)

C24_ReceiveTimeSetOnce ==
    [][\A v \in Videos :
          /\ (/\ receive_time[v] = None
              /\ receive_time'[v] # None
              /\ ret'.op # "set_receive_time")
             => (dl_flag'[v] /\ ret'.op = "set_flag")
          /\ (/\ receive_time[v] # None
              /\ receive_time'[v] # receive_time[v])
             => ret'.op = "set_receive_time"]_vars

(***************************************************************************)
(* The claim about find_matching_video.                                    *)
(***************************************************************************)
\* the words of a name: its longest runs of letters
RECURSIVE WordsOf(_, _)
WordsOf(s, word) ==
    IF s = <<>> THEN IF word = <<>> THEN <<>> ELSE <<word>>
    ELSE IF Head(s) \in Letters THEN WordsOf(Tail(s), Append(word, Head(s)))
    ELSE IF word = <<>> THEN WordsOf(Tail(s), <<>>)
    ELSE <<word>> \o WordsOf(Tail(s), <<>>)

\* the normalized name: its words with one space between them
RECURSIVE Joined(_)
Joined(ws) ==
    IF ws = <<>> THEN <<>>
    ELSE IF Len(ws) = 1 THEN ws[1]
    ELSE ws[1] \o <<" ">> \o Joined(Tail(ws))

Normalized(nm) == Joined(WordsOf(nm, <<>>))

FirstChars(s, k) == SubSeq(s, 1, IF k < Len(s) THEN k ELSE Len(s))
WithoutLast(s, k) == SubSeq(s, 1, IF Len(s) > k THEN Len(s) - k ELSE 0)

\* the normalized names a and b match under the policy of app_obj
PolicyMatch(app_obj, a, b) ==
    IF app_obj.match_method = "exact_match" THEN a = b
    ELSE IF app_obj.match_method = "match_first"
    THEN FirstChars(a, app_obj.match_first_chars)
             = FirstChars(b, app_obj.match_first_chars)
    ELSE WithoutLast(a, app_obj.match_ignore_chars)
             = WithoutLast(b, app_obj.match_ignore_chars)

\* the places of the child list l whose entry is a Video that matches
Hits(l, app_obj, nm) ==
    {i \in 1..Len(l) :
         /\ isVideo(l[i])
         /\ PolicyMatch(app_obj, Normalized(name[l[i]]), Normalized(nm))}

\* C25: find_matching_video returns the first entry of the child list that
\* is a Video whose normalized name matches the normalized candidate under
\* the policy, and None when there is none; what it returns is a Video of
\* the child list itself.  Under exact_match the candidate "Foo: Bar!" finds
\* a child named "Foo Bar" and neither "FooBar" nor "Foo Bar Baz".
C25_FindMatchingVideo ==
    ret.op = "find_matching_video"
    => /\ IF Hits(child_list[ret.self], ret.arg.app_obj, ret.arg.name) = {}
          THEN ret.val = None
          ELSE /\ ret.val # None
               /\ isVideo(ret.val)
               /\ \E i \in Hits(child_list[ret.self], ret.arg.app_obj,
                                ret.arg.name) :
                      /\ child_list[ret.self][i] = ret.val
                      /\ \A j \in Hits(child_list[ret.self], ret.arg.app_obj,
                                       ret.arg.name) : i <= j
       /\ (/\ ret.arg.app_obj.match_method = "exact_match"
           /\ ret.arg.name = FooColonBar)
          => /\ ret.val # None => name[ret.val] \notin {FooBar, Foo_Bar_Baz}
             /\ (\E i \in 1..Len(child_list[ret.self]) :
                     /\ isVideo(child_list[ret.self][i])
                     /\ name[child_list[ret.self][i]] = Foo_Bar)
                => (ret.val # None /\ name[ret.val] \in {Foo_Bar, FooUnderBar})

\* C25's case: "Foo: Bar!" is searched for under exact_match in the folder
\* whose children are the videos 6, named "FooBar", and 5, named "Foo Bar"
C25_Witness ==
    /\ ret.op = "find_matching_video" /\ ret.self = 1
    /\ ret.arg.app_obj.match_method = "exact_match"
    /\ ret.arg.name = FooColonBar
    /\ child_list[1] = <<6, 5>>
    /\ name[6] = FooBar /\ name[5] = Foo_Bar
    /\ ret.val = 5

(***************************************************************************)
(* C26: count_descendants, called with [0, 0, 0, 0, 0], returns            *)
(* [total, videos, channels, playlists, folders] where each count is the   *)
(* exact number of strict descendants of that kind and total is the sum of *)
(* the other four, whatever the shallow counters hold.                     *)
(***************************************************************************)
DescendantCounts(c) ==
    <<Cardinality(Below(c)), Cardinality(Below(c) \cap Videos),
      Cardinality(Below(c) \cap Channels), Cardinality(Below(c) \cap Playlists),
      Cardinality(Below(c) \cap Folders)>>

C26_CountDescendants ==
    ret.op = "count_descendants"
    => /\ ret.val = DescendantCounts(ret.self)
       /\ ret.val[1] = ret.val[2] + ret.val[3] + ret.val[4] + ret.val[5]

(***************************************************************************)
(* C27: is_hidden returns True exactly when the container is a Folder with *)
(* hidden_flag set or some ancestor of it is a Folder with hidden_flag     *)
(* set.                                                                    *)
(***************************************************************************)
\* the node k parents above the node n, None above a node without parent
RECURSIVE Up(_, _)
Up(n, k) == IF k = 0 \/ n = None THEN n ELSE Up(parent_obj[n], k - 1)

\* the ancestors of n: its parent, the parent of its parent, and so on
Ancestors(n) == {Up(n, k) : k \in 1..Cardinality(Containers)} \ {None}

HiddenFolders == {f \in Folders : hidden_flag[f]}

C27_IsHidden ==
    ret.op = "is_hidden"
    => (ret.val <=> (({ret.self} \cup Ancestors(ret.self)) \cap HiddenFolders
                      # {}))

\* a container that is not hidden itself, below a parent that is not hidden,
\* below a hidden folder
C27_Witness ==
    /\ ret.op = "is_hidden"
    /\ ret.val
    /\ ret.self \notin HiddenFolders
    /\ parent_obj[ret.self] # None
    /\ parent_obj[ret.self] \notin HiddenFolders

(***************************************************************************)
(* C28: after any sequence of Video construction, add_child, del_child and *)
(* Video flag setters, with no direct call of reset_counts or of a dec_*   *)
(* method, none of a container's six counters is negative.                 *)
(***************************************************************************)
C28_CountersNotNegative ==
    \A c \in Containers :
        /\ vid_count[c] >= 0
        /\ bookmark_count[c] >= 0
        /\ dl_count[c] >= 0
        /\ fav_count[c] >= 0
        /\ new_count[c] >= 0
        /\ waiting_count[c] >= 0

(***************************************************************************)
(* C29: after any sequence of add_child (sorting or not), del_child and    *)
(* sort_children, the vid_count of every container is the number of Video  *)
(* entries of its child_list, and sort_children changes neither vid_count  *)
(* nor the children of any container.                                      *)
(***************************************************************************)
VideoEntries(c) ==
    Cardinality({i \in 1..Len(child_list[c]) : isVideo(child_list[c][i])})

VidCountIsVideoEntries ==
    \A c \in Containers : vid_count[c] = VideoEntries(c)

SortKeepsCountAndChildren ==
    ret'.op = "sort_children"
    => /\ vid_count' = vid_count
       /\ \A c \in Containers, x \in Nodes :
              Occurrences(child_list'[c], x) = Occurrences(child_list[c], x)

C29_VidCountIsVideoEntries ==
    []VidCountIsVideoEntries /\ [][SortKeepsCountAndChildren]_vars

(***************************************************************************)
(* C30: recalculate_counts restores the counters from any prior values:    *)
(* when it returns, each of the six counters of the container is the       *)
(* number of its direct Video children with the matching flag (vid_count:  *)
(* of all of them), child_list and every child are as they were, and a     *)
(* second call would change nothing.                                       *)
(***************************************************************************)
Flagged(c, flag) ==
    Cardinality({i \in 1..Len(child_list[c]) :
                     isVideo(child_list[c][i]) /\ flag[child_list[c][i]]})

CountersMatch(c) ==
    /\ vid_count[c] = VideoEntries(c)
    /\ bookmark_count[c] = Flagged(c, bookmark_flag)
    /\ dl_count[c] = Flagged(c, dl_flag)
    /\ fav_count[c] = Flagged(c, fav_flag)
    /\ new_count[c] = Flagged(c, new_flag)
    /\ waiting_count[c] = Flagged(c, waiting_flag)

C30_RecalculateCounts ==
    [][\A c \in Containers :
          (ret'.op = "recalculate_counts" /\ ret'.self = c)
          => /\ CountersMatch(c)'
             /\ \A d \in Containers \ {c} : Counts(d)' = Counts(d)
             /\ UNCHANGED <<treeVars, flagVars, keyVars, nameVars, priv_flag,
                            exportVars, sorting, aliasVars>>
             /\ recalculate_counts(c)' = Counts(c)']_vars

\* recalculate_counts has found counters below 0 in a container with two video
\* entries, one of them bookmarked
C30_Witness ==
    /\ ret.op = "recalculate_counts"
    /\ ret.arg.vid_count < 0
    /\ ret.arg.bookmark_count < 0
    /\ vid_count[ret.self] = 2
    /\ bookmark_count[ret.self] = 1

==============================================================================
